---- MODULE Spec2Model ----
(***************************************************************************)
(* Model of the core_sim crate (dialect v1): the bit helpers, the          *)
(* instruction decoder, the memory, the register file, the CPU tick and    *)
(* the Simulator facade with its execution modes.                          *)
(*                                                                         *)
(* A u32 is the pair <<hi, lo>> of its 16-bit halves, so that every value  *)
(* of the machine (0xDEADBEEF, 0xCCCCCCCC, negative immediates) can be     *)
(* written and added with wrap-around.  A usize keeps the same shape with  *)
(* an unbounded high half.                                                 *)
(***************************************************************************)
EXTENDS Integers, Sequences, FiniteSets, TLC

----------------------------------------------------------------------------
(* 32-bit words *)

H16 == 65536

U32(n) == <<n \div H16, n % H16>>

ToInt(w) == w[1] * H16 + w[2]

Lt(a, b) == a[1] < b[1] \/ (a[1] = b[1] /\ a[2] < b[2])

Ge(a, b) == ~Lt(a, b)

wrapping_add(a, b) ==
    LET lo == a[2] + b[2]
        hi == a[1] + b[1] + (lo \div H16)
    IN  <<hi % H16, lo % H16>>

Not32(a) == <<H16 - 1 - a[1], H16 - 1 - a[2]>>

wrapping_sub(a, b) == wrapping_add(wrapping_add(a, Not32(b)), <<0, 1>>)

RECURSIVE BitOp16(_, _, _, _)
BitOp16(op, a, b, n) ==
    IF n = 0 THEN 0
    ELSE LET x == a % 2
             y == b % 2
             z == CASE op = "and" -> x * y
                    [] op = "or"  -> x + y - x * y
                    [] op = "xor" -> (x + y) % 2
         IN  z + 2 * BitOp16(op, a \div 2, b \div 2, n - 1)

And32(a, b) == <<BitOp16("and", a[1], b[1], 16), BitOp16("and", a[2], b[2], 16)>>

Or32(a, b) == <<BitOp16("or", a[1], b[1], 16), BitOp16("or", a[2], b[2], 16)>>

Xor32(a, b) == <<BitOp16("xor", a[1], b[1], 16), BitOp16("xor", a[2], b[2], 16)>>

\* w << n for 0 <= n <= 31, bits shifted out are lost
Shl32(w, n) ==
    IF n >= 16
    THEN <<(w[2] % (2 ^ (32 - n))) * (2 ^ (n - 16)), 0>>
    ELSE <<(w[1] % (2 ^ (16 - n))) * (2 ^ n) + (w[2] \div (2 ^ (16 - n))),
           (w[2] % (2 ^ (16 - n))) * (2 ^ n)>>

\* w >> n (logical) for 0 <= n <= 31
Shr32(w, n) ==
    IF n >= 16
    THEN <<0, w[1] \div (2 ^ (n - 16))>>
    ELSE <<w[1] \div (2 ^ n), (w[1] % (2 ^ n)) * (2 ^ (16 - n)) + (w[2] \div (2 ^ n))>>

\* variant: the comparison of the words as unsigned numbers
SLt_unsigned(a, b) == Lt(a, b)

\* (x as i32) < (y as i32)
SLt(a, b) ==
    LET na == a[1] >= 32768
        nb == b[1] >= 32768
    IN  IF na # nb THEN na ELSE Lt(a, b)

\* variant: the bytes of the word in big-endian order
to_be_bytes(w) == <<w[1] \div 256, w[1] % 256, w[2] \div 256, w[2] % 256>>

to_le_bytes(w) == <<w[2] % 256, w[2] \div 256, w[1] % 256, w[1] \div 256>>

from_le_bytes(v) == <<v[3] + 256 * v[4], v[1] + 256 * v[2]>>

----------------------------------------------------------------------------
(* bin.rs *)

bit_range(start, end) ==
    LET large == IF end # 31 THEN Shl32(<<0, 1>>, end + 1) ELSE <<0, 0>>
    IN  wrapping_sub(large, Shl32(<<0, 1>>, start))

bit_range_lower(index) ==
    LET large == IF index # 31 THEN Shl32(<<0, 1>>, index + 1) ELSE <<0, 0>>
    IN  wrapping_sub(large, <<0, 1>>)

mask(bin, start, end) == And32(bin, bit_range(start, end))

mask_lower(bin, index) == And32(bin, bit_range_lower(index))

extract(bin, start, end) == Shr32(mask(bin, start, end), start)

at(bin, index) == And32(Shr32(bin, index), <<0, 1>>)

\* variant: the bit BIT itself is left as it is
sign_extend_above(BIT, sign, imm) ==
    IF sign # <<0, 0>> THEN Or32(bit_range(BIT + 1, 31), imm) ELSE imm

sign_extend(BIT, sign, imm) ==
    IF sign # <<0, 0>> THEN Or32(bit_range(BIT, 31), imm) ELSE imm

----------------------------------------------------------------------------
(* decode_instr.rs (dialect v1) *)

i_imm(sign, imm) == sign_extend(12, sign, imm)

s_imm(bin, sign) ==
    LET imm == Or32(Shl32(extract(bin, 25, 31), 5), extract(bin, 7, 11))
    IN  sign_extend(12, sign, imm)

b_imm(bin, sign) ==
    LET at_7  == at(bin, 7)
        lower == extract(bin, 8, 11)
        upper == extract(bin, 25, 30)
        imm   == Or32(Or32(Or32(Shl32(lower, 1), Shl32(upper, 5)), Shl32(at_7, 11)),
                      Shl32(sign, 12))
    IN  sign_extend(13, sign, imm)

j_imm(bin, sign) ==
    LET part1 == extract(bin, 12, 19)
        part2 == at(bin, 20)
        part3 == extract(bin, 21, 30)
        part4 == sign
        imm   == Or32(Or32(Or32(Shl32(part1, 12), Shl32(part2, 11)), Shl32(part3, 1)),
                      Shl32(part4, 20))
    IN  sign_extend(21, sign, imm)

Invalid(bin) == [tag |-> "Invalid", bin |-> bin]

\* the float opcode 1010011; "Abort" is the failed assert_eq!(funct7, 0b1010001)
decode_F(bin, rd, funct3, rs1, rs2, funct7) ==
    IF funct3 = 0
    THEN CASE funct7 \in {0, 4, 8, 12, 24, 28, 32} ->
                [tag |-> "FE",
                 instr |-> CASE funct7 = 0 -> "Fadd" [] funct7 = 4 -> "Fsub"
                             [] funct7 = 8 -> "Fmul" [] funct7 = 12 -> "Fdiv"
                             [] funct7 = 24 -> "Fsgnj" [] funct7 = 28 -> "Fsgnjn"
                             [] funct7 = 32 -> "Fsgnjx",
                 rd |-> rd, rs1 |-> rs1, rs2 |-> rs2]
           [] funct7 \in {16, 20, 64} ->
                [tag |-> "FH",
                 instr |-> CASE funct7 = 16 -> "Fsqrt" [] funct7 = 20 -> "Fhalf"
                             [] funct7 = 64 -> "Ffloor",
                 rd |-> rd, rs1 |-> rs1]
           [] funct7 = 69 -> [tag |-> "FY", instr |-> "Fftoi", rd |-> rd, rs1 |-> rs1]
           [] funct7 = 38 -> [tag |-> "FX", instr |-> "Fitof", rd |-> rd, rs1 |-> rs1]
           [] OTHER -> Invalid(bin)
    ELSE IF funct7 # 81 THEN [tag |-> "Abort"]
    ELSE IF funct3 \in {1, 2, 3}
         THEN IF funct3 = 1
              THEN [tag |-> "FK", instr |-> "Flt", rd |-> rd, rs1 |-> rs1, rs2 |-> rs2]
              ELSE Invalid(bin)
         ELSE CASE funct3 = 4 -> [tag |-> "FY", instr |-> "Fiszero", rd |-> rd, rs1 |-> rs1]
                [] funct3 = 5 -> [tag |-> "FY", instr |-> "Fispos", rd |-> rd, rs1 |-> rs1]
                [] funct3 = 6 -> [tag |-> "FY", instr |-> "Fisneg", rd |-> rd, rs1 |-> rs1]
                [] OTHER -> Invalid(bin)

decode_from(bin) ==
    IF bin = <<0, 0>> THEN [tag |-> "Misc", instr |-> "End"]
    ELSE
    LET opcode == ToInt(mask_lower(bin, 6))
        rd     == ToInt(extract(bin, 7, 11))
        funct3 == ToInt(extract(bin, 12, 14))
        rs1    == ToInt(extract(bin, 15, 19))
        rs2    == ToInt(extract(bin, 20, 24))
        funct7 == ToInt(extract(bin, 25, 31))
        imm    == extract(bin, 20, 31)
        sign   == at(bin, 31)
        f37    == <<funct3, funct7>>
    IN  CASE opcode = 51 ->  \* 0b0110011, R fmt
               LET instr == CASE f37 = <<0, 0>>  -> "Add"
                              [] f37 = <<0, 32>> -> "Sub"
                              [] f37 = <<4, 0>>  -> "Xor"
                              [] f37 = <<6, 0>>  -> "Or"
                              [] f37 = <<7, 0>>  -> "And"
                              [] f37 = <<1, 0>>  -> "Sll"
                              [] f37 = <<5, 32>> -> "Sra"
                              [] f37 = <<2, 0>>  -> "Slt"
                              [] OTHER -> "none"
               IN  IF instr = "none" THEN Invalid(bin)
                   ELSE [tag |-> "R", instr |-> instr, rd |-> rd, rs1 |-> rs1, rs2 |-> rs2]
          [] opcode = 19 ->  \* 0b0010011, I fmt
               LET instr == CASE funct3 = 0 -> "Addi"
                              [] funct3 = 4 -> "Xori"
                              [] funct3 = 6 -> "Ori"
                              [] funct3 = 7 -> "Andi"
                              [] f37 = <<1, 0>> -> "Slli"
                              [] OTHER -> "none"
                   imm1  == IF instr = "Slli" THEN mask(imm, 0, 4) ELSE imm
               IN  IF instr = "none" THEN Invalid(bin)
                   ELSE [tag |-> "I", instr |-> instr, rd |-> rd, rs1 |-> rs1,
                         imm |-> i_imm(sign, imm1)]
          [] opcode = 3 ->   \* 0b0000011
               IF funct3 = 2
               THEN [tag |-> "I", instr |-> "Lw", rd |-> rd, rs1 |-> rs1, imm |-> i_imm(sign, imm)]
               ELSE Invalid(bin)
          [] opcode = 103 -> \* 0b1100111
               IF funct3 = 0
               THEN [tag |-> "I", instr |-> "Jalr", rd |-> rd, rs1 |-> rs1, imm |-> i_imm(sign, imm)]
               ELSE Invalid(bin)
          [] opcode = 35 ->  \* 0b0100011, S fmt
               IF funct3 = 2
               THEN [tag |-> "S", instr |-> "Sw", rs1 |-> rs1, rs2 |-> rs2, imm |-> s_imm(bin, sign)]
               ELSE Invalid(bin)
          [] opcode = 99 ->  \* 0b1100011, B fmt
               LET instr == CASE funct3 = 0 -> "Beq"
                              [] funct3 = 1 -> "Bne"
                              [] funct3 = 4 -> "Blt"
                              [] funct3 = 5 -> "Bge"
                              [] OTHER -> "none"
               IN  IF instr = "none" THEN Invalid(bin)
                   ELSE [tag |-> "B", instr |-> instr, rs1 |-> rs1, rs2 |-> rs2,
                         imm |-> b_imm(bin, sign)]
          [] opcode = 111 -> \* 0b1101111, jal
               [tag |-> "J", instr |-> "Jal", rd |-> rd, imm |-> j_imm(bin, sign)]
          [] opcode = 11 ->  [tag |-> "IO", instr |-> "Inw", rd |-> rd]
          [] opcode = 43 ->  [tag |-> "IO", instr |-> "Outb", rs |-> rs1]
          [] opcode = 15 ->  [tag |-> "IO", instr |-> "Finw", rd |-> rd]
          [] opcode = 83 ->  \* 0b1010011, F
               decode_F(bin, rd, funct3, rs1, rs2, funct7)
          [] opcode = 87 ->  \* 0b1010111, V, W
               IF funct3 \in {0, 1, 2, 3}
               THEN CASE funct3 = 1 -> [tag |-> "FW", instr |-> "Fblt", rs1 |-> rs1, rs2 |-> rs2,
                                        imm |-> b_imm(bin, sign)]
                      [] funct3 = 2 -> [tag |-> "FW", instr |-> "Fbge", rs1 |-> rs1, rs2 |-> rs2,
                                        imm |-> b_imm(bin, sign)]
                      [] OTHER -> Invalid(bin)
               ELSE (CASE funct3 = 4 -> [tag |-> "FV", instr |-> "Fbeqz", rs1 |-> rs1,
                                         imm |-> b_imm(bin, sign)]
                       [] funct3 = 7 -> [tag |-> "FV", instr |-> "Fbnez", rs1 |-> rs1,
                                         imm |-> b_imm(bin, sign)]
                       [] OTHER -> Invalid(bin))
          [] opcode = 7 ->   \* 0b0000111
               [tag |-> "Flw", rd |-> rd, rs1 |-> rs1, imm |-> i_imm(sign, imm)]
          [] opcode = 39 ->  \* 0b0100111
               [tag |-> "Fsw", rs1 |-> rs1, rs2 |-> rs2, imm |-> s_imm(bin, sign)]
          [] OTHER -> Invalid(bin)

----------------------------------------------------------------------------
(* usize (64 bits): four 16-bit limbs, most significant first *)

as_usize(w) == <<0, 0, w[1], w[2]>>

\* a << 2 on a usize: the two top bits are shifted out
UShl2(a) ==
    LET x0 == a[4] * 4
        x1 == a[3] * 4 + (x0 \div H16)
        x2 == a[2] * 4 + (x1 \div H16)
        x3 == a[1] * 4 + (x2 \div H16)
    IN  <<x3 % H16, x2 % H16, x1 % H16, x0 % H16>>

UFits(a) == a[1] = 0 /\ a[2] = 0 /\ a[3] < 32768

UToInt(a) == a[3] * H16 + a[4]

\* a < n for an n below 2^31
ULtInt(a, n) == UFits(a) /\ UToInt(a) < n

----------------------------------------------------------------------------
(* ty.rs *)

Ty == {"I32", "Usize", "I32OrUsize", "F32", "Unknown"}

\* variant: I32OrUsize placed above I32 and Usize
partial_cmp_join(a, b) ==
    CASE a = b -> "Equal"
      [] a \in {"I32", "Usize"} /\ b = "I32OrUsize" -> "Less"
      [] a = "I32OrUsize" /\ b \in {"I32", "Usize"} -> "Greater"
      [] b = "Unknown" -> "Greater"
      [] a = "Unknown" -> "Less"
      [] OTHER -> "None"

partial_cmp(a, b) ==
    CASE a = b -> "Equal"
      [] a \in {"I32", "Usize"} /\ b = "I32OrUsize" -> "Greater"
      [] a = "I32OrUsize" /\ b \in {"I32", "Usize"} -> "Less"
      [] b = "Unknown" -> "Greater"
      [] a = "Unknown" -> "Less"
      [] OTHER -> "None"

\* TypedU32::as_i
as_i(v) ==
    IF partial_cmp(v.ty, "I32OrUsize") \in {"Greater", "Equal"}
    THEN [some |-> TRUE, value |-> v.value]
    ELSE [some |-> FALSE]

----------------------------------------------------------------------------
(* memory.rs *)

RAM_BYTE_SIZE == 1000000

FILL == 204

VARIABLES inner, ty, instr_mem_range, spy, typed_memory

\* the Memory value seen by the operators below
Memory == [inner |-> inner, ty |-> ty, instr_mem_range |-> instr_mem_range, spy |-> spy]

ByteAt(m, i) == IF i \in DOMAIN m.inner THEN m.inner[i] ELSE FILL

TyAt(m, a) == IF a \in DOMAIN m.ty THEN m.ty[a] ELSE "Unknown"

\* Range<usize>::contains
\* variant: a range closed at both ends
contains_inclusive(r, index) == UFits(index) /\ r.start <= UToInt(index) /\ UToInt(index) <= r.end

contains(r, index) == UFits(index) /\ r.start <= UToInt(index) /\ UToInt(index) < r.end

OutOfBounds(addr) == [kind |-> "OutOfBounds", accessed_address |-> addr]

PcOutOfBounds(pc_address) == [kind |-> "PcOutOfBounds", pc_address |-> pc_address]

ViolateTransmutation(expected, attempt) ==
    [kind |-> "ViolateTransmutation", expected |-> expected, attempt |-> attempt]

\* TRUE when bounds_check! returns Err
bounds_check(m, addr) ==
    LET index == UShl2(addr)
    IN  ~ULtInt(index, RAM_BYTE_SIZE) \/ contains(m.instr_mem_range, index)

\* index of the tag vector (RAM_BYTE_SIZE >> 2 entries) is valid
TyIndexOk(addr) == ULtInt(addr, RAM_BYTE_SIZE \div 4)

get_raw_addr(m, addr) == from_le_bytes([i \in 1..4 |-> ByteAt(m, addr + i - 1)])

WriteWord(m, addr, v) ==
    [i \in (DOMAIN m.inner) \cup {addr + k : k \in 0..3} |->
        IF i \in {addr + k : k \in 0..3} THEN v[i - addr + 1] ELSE m.inner[i]]

SetTy(m, a, t) == [i \in (DOMAIN m.ty) \cup {a} |-> IF i = a THEN t ELSE m.ty[i]]

\* variant: the promoted tag returned but not stored
unify_no_store(m, addr, attempt) ==
    LET t == TyAt(m, UToInt(addr))
        c == partial_cmp(t, attempt)
    IN  IF c = "Less"
        THEN [ok |-> TRUE, ty |-> attempt, m |-> m]
        ELSE IF c \in {"Greater", "Equal"}
        THEN [ok |-> TRUE, ty |-> t, m |-> m]
        ELSE [ok |-> FALSE, err |-> ViolateTransmutation(t, attempt), m |-> m]

unify(m, addr, attempt) ==
    LET t == TyAt(m, UToInt(addr))
        c == partial_cmp(t, attempt)
    IN  IF c = "Less"
        THEN [ok |-> TRUE, ty |-> attempt, m |-> [m EXCEPT !.ty = SetTy(m, UToInt(addr), attempt)]]
        ELSE IF c \in {"Greater", "Equal"}
        THEN [ok |-> TRUE, ty |-> t, m |-> m]
        ELSE [ok |-> FALSE, err |-> ViolateTransmutation(t, attempt), m |-> m]

on_read(m, addr, spied) ==
    IF addr \in m.spy.on_read
    THEN [some |-> TRUE, kind |-> "Read", target |-> addr]
    ELSE spied

\* variant: the spy result built after the store, "before" holding the new value
on_write_after(m, addr, val, spied) ==
    IF addr \in m.spy.on_write
    THEN [some |-> TRUE, kind |-> "Write", before |-> val, after |-> val, target |-> addr]
    ELSE spied

on_write(m, addr, val, spied) ==
    IF addr \in m.spy.on_write
    THEN [some |-> TRUE, kind |-> "Write",
          before |-> [value |-> get_raw_addr(m, UToInt(UShl2(addr))),
                      ty |-> IF typed_memory THEN TyAt(m, UToInt(addr)) ELSE "Unknown"],
          after |-> val,
          target |-> addr]
    ELSE spied

MErr(m, e, spied) == [res |-> "Err", err |-> e, m |-> m, spied |-> spied]

MAbort(m, spied) == [res |-> "Abort", m |-> m, spied |-> spied]

\* get, get_i and get_f differ in the tag they ask for
get_typed(m, addr, attempt, spied) ==
    IF bounds_check(m, addr) THEN MErr(m, OutOfBounds(addr), spied)
    ELSE IF typed_memory /\ ~TyIndexOk(addr) THEN MAbort(m, spied)
    ELSE LET u == IF typed_memory THEN unify(m, addr, attempt)
                  ELSE [ok |-> TRUE, ty |-> "Unknown", m |-> m]
         IN  IF ~u.ok THEN MErr(m, u.err, spied)
             ELSE [res |-> "Ok",
                   val |-> [value |-> get_raw_addr(u.m, UToInt(UShl2(addr))), ty |-> u.ty],
                   m |-> u.m,
                   spied |-> on_read(u.m, addr, spied)]

get(m, addr, spied) == get_typed(m, addr, "Unknown", spied)

get_i(m, addr, spied) == get_typed(m, addr, "I32OrUsize", spied)

get_f(m, addr, spied) == get_typed(m, addr, "F32", spied)

get_from_pc(m, pc) ==
    LET pc_address == as_usize(pc)
    IN  IF contains(m.instr_mem_range, pc_address)
        THEN [res |-> "Ok", val |-> get_raw_addr(m, UToInt(pc_address))]
        ELSE [res |-> "Err", err |-> PcOutOfBounds(pc_address)]

set_typed(m, addr, val, t, spied) ==
    IF bounds_check(m, addr) THEN MErr(m, OutOfBounds(addr), spied)
    ELSE \* with the tag vector, on_write and reset_type! index it with addr
         IF typed_memory /\ ~TyIndexOk(addr) THEN MAbort(m, spied)
         ELSE LET sp == on_write(m, addr, [value |-> val, ty |-> t], spied)
              IN  LET m1 == IF typed_memory
                            THEN [m EXCEPT !.ty = SetTy(m, UToInt(addr), t)]
                            ELSE m
                  IN  [res |-> "Ok",
                       m |-> [m1 EXCEPT !.inner =
                                 WriteWord(m1, UToInt(UShl2(addr)), to_le_bytes(val))],
                       spied |-> sp]

\* variant: the store leaves the tag of the word as it was
set_keep_ty(m, addr, val, spied) == set_typed(m, addr, val, TyAt(m, UToInt(addr)), spied)

set(m, addr, val, spied) == set_typed(m, addr, val, "I32OrUsize", spied)

set_f(m, addr, val, spied) == set_typed(m, addr, val, "F32", spied)

add_spy(m, k, addr) ==
    [m EXCEPT !.spy = [on_read  |-> IF "Read" \in k THEN @.on_read \cup {addr} ELSE @.on_read,
                       on_write |-> IF "Write" \in k THEN @.on_write \cup {addr} ELSE @.on_write]]

remove_spy(m, k, addr) ==
    [m EXCEPT !.spy = [on_read  |-> IF "Read" \in k THEN @.on_read \ {addr} ELSE @.on_read,
                       on_write |-> IF "Write" \in k THEN @.on_write \ {addr} ELSE @.on_write]]

----------------------------------------------------------------------------
(* register.rs, reg_file.rs *)

MAX_REG_ID == 32

RegIds == 0..(MAX_REG_ID - 1)

reg_get(inner_r, id) == inner_r[id]

\* variant: the zero register written like any other
reg_set_any(inner_r, id, val) == [inner_r EXCEPT ![id] = val]

reg_set(inner_r, id, val) == IF id # 0 THEN [inner_r EXCEPT ![id] = val] ELSE inner_r

----------------------------------------------------------------------------
(* io.rs: BinaryInput and BinaryOutput *)

\* inw and finw read four bytes at read_index, which they leave where it is;
\* a content shorter than read_index + 4 makes the slice panic
inw(input) ==
    IF input.read_index + 4 > Len(input.content) THEN [res |-> "Abort"]
    ELSE [res |-> "Ok",
          val |-> from_le_bytes([i \in 1..4 |-> input.content[input.read_index + i]])]

\* variant: the byte put in front of the bytes already written
outb_front(output, c) == <<c>> \o output

outb(output, c) == Append(output, c)

----------------------------------------------------------------------------
(* branch_predictor.rs; the timing model and the statistics are those of
   the build with the features time_predict and stat *)

NUM_COUNTERS == 64

\* variant: a counter that wraps around at the top
next_wrapping(s) ==
    CASE s = "StronglyUntaken" -> "WeaklyUntaken"
      [] s = "WeaklyUntaken"   -> "WeaklyTaken"
      [] s = "WeaklyTaken"     -> "StronglyTaken"
      [] s = "StronglyTaken"   -> "StronglyUntaken"

\* SaturatingCounter::next
next(s) ==
    CASE s = "StronglyUntaken" -> "WeaklyUntaken"
      [] s = "WeaklyUntaken"   -> "WeaklyTaken"
      [] s = "WeaklyTaken"     -> "StronglyTaken"
      [] s = "StronglyTaken"   -> "StronglyTaken"

\* variant: a counter that never moves down
prev_stay(s) == s

\* SaturatingCounter::prev
prev(s) ==
    CASE s = "StronglyUntaken" -> "StronglyUntaken"
      [] s = "WeaklyUntaken"   -> "StronglyUntaken"
      [] s = "WeaklyTaken"     -> "WeaklyUntaken"
      [] s = "StronglyTaken"   -> "WeaklyTaken"

\* BranchPredictor::new
BranchPredictor_new == [i \in 0..(NUM_COUNTERS - 1) |-> "WeaklyTaken"]

\* addr % NCOUNTERS for a usize addr (NCOUNTERS divides 2^16)
counter_index(addr) == addr[4] % NUM_COUNTERS

\* variant: only the strong state predicts taken
predict_strong(bp, addr) == bp[counter_index(addr)] = "StronglyTaken"

predict(bp, addr) == bp[counter_index(addr)] \in {"StronglyTaken", "WeaklyTaken"}

update_state(bp, addr, result) ==
    [bp EXCEPT ![counter_index(addr)] = IF result THEN next(@) ELSE prev(@)]

----------------------------------------------------------------------------
(* cache.rs: the tags of the lines accessed so far, the others hold 0 *)

CACHE_NUM_LINES == 16384

\* Cache::new
Cache_new == <<>>

\* (addr >> 2) % NLINES for a usize addr: bits 2..15
cache_line(addr) == (addr[4] \div 4) % CACHE_NUM_LINES

\* ((addr >> 2) / NLINES) as u32: bits 16..47
cache_tag(addr) == <<addr[2], addr[3]>>

TagAt(cache, line) == IF line \in DOMAIN cache THEN cache[line] ELSE <<0, 0>>

\* variant: a miss that leaves the tag of the line
access_cache_no_replace(cache, addr) ==
    [hit |-> TagAt(cache, cache_line(addr)) = cache_tag(addr), cache |-> cache]

\* Cache::access_cache: the hit flag and the tags after the access
access_cache(cache, addr) ==
    IF TagAt(cache, cache_line(addr)) # cache_tag(addr)
    THEN [hit |-> FALSE,
          cache |-> [i \in (DOMAIN cache) \cup {cache_line(addr)} |->
                        IF i = cache_line(addr) THEN cache_tag(addr) ELSE cache[i]]]
    ELSE [hit |-> TRUE, cache |-> cache]

----------------------------------------------------------------------------
(* cpu.rs *)

\* BranchStat::default()
BranchStat_default ==
    [taken_pred_taken_count |-> 0, taken_pred_untaken_count |-> 0,
     untaken_pred_taken_count |-> 0, untaken_pred_untaken_count |-> 0]

\* variant: the outcome and the prediction exchanged
update_stat_swapped(b, predicted, actual) ==
    IF actual
    THEN (IF predicted
          THEN [b EXCEPT !.taken_pred_taken_count = @ + 1]
          ELSE [b EXCEPT !.untaken_pred_taken_count = @ + 1])
    ELSE IF predicted
    THEN [b EXCEPT !.taken_pred_untaken_count = @ + 1]
    ELSE [b EXCEPT !.untaken_pred_untaken_count = @ + 1]

\* BranchStat::update_stat
update_stat(b, predicted, actual) ==
    IF predicted
    THEN (IF actual
          THEN [b EXCEPT !.taken_pred_taken_count = @ + 1]
          ELSE [b EXCEPT !.untaken_pred_taken_count = @ + 1])
    ELSE IF actual
    THEN [b EXCEPT !.taken_pred_untaken_count = @ + 1]
    ELSE [b EXCEPT !.untaken_pred_untaken_count = @ + 1]

\* CacheStat::default()
CacheStat_default == [hit_count |-> 0, miss_count |-> 0]

\* CacheStat::update_stat
CacheStat_update_stat(s, result) ==
    IF result THEN [s EXCEPT !.hit_count = @ + 1] ELSE [s EXCEPT !.miss_count = @ + 1]

DDR2_ACCESS_CYCLES == 90

BRAM_WORD_SIZE == 16384

STACK_WORD_SIZE == 256

\* the number of stages, the length of pipeline_state
PIPELINE_LEN == 5

VARIABLES pc, reg_inner, reg_inner_f, input, output

\* the timing state of the Cpu
VARIABLES branch_predictor, cache, pipeline_state

\* Cpu::b_stat, the branch statistics
VARIABLE b_stat

\* Cpu::c_stat, the cache statistics
VARIABLE c_stat

\* the read counters of the statistics: RegFile::stat_i.read and
\* RegFile::stat_f.read by register, Memory::stat_mem.read summed over the
\* regions
VARIABLE read_stat

\* the counters after RegFile::new and Memory::new
ReadStat_default ==
    [stat_i |-> [i \in RegIds |-> 0], stat_f |-> [i \in RegIds |-> 0], stat_mem |-> 0]

\* RegFileStat::encounter_read on stat_i, as RegFile::get calls it
encounter_read(s, id) == [s EXCEPT !.stat_i[id] = @ + 1]

\* RegFileStat::encounter_read on stat_f, as RegFile::get_f calls it
encounter_read_f(s, id) == [s EXCEPT !.stat_f[id] = @ + 1]

\* MemoryStat::on_read, as Memory::on_read calls it
stat_on_read(s) == [s EXCEPT !.stat_mem = @ + 1]

\* the build profile: with overflow checks (cargo's dev profile) a shift by
\* 32 or more panics, without them (release) the amount is masked
VARIABLE overflow_checks

\* the Cpu value seen by the operators below
Cpu == [pc |-> pc, reg |-> reg_inner, freg |-> reg_inner_f, m |-> Memory,
        input |-> input, output |-> output,
        branch_predictor |-> branch_predictor, cache |-> cache, b_stat |-> b_stat,
        c_stat |-> c_stat, read_stat |-> read_stat,
        pipeline_state |-> pipeline_state]

NoneV == [some |-> FALSE]

ExOut(c) == [ma_in |-> NoneV, wb_in |-> NoneV, new_pc |-> NoneV, end |-> FALSE,
             use_fpu |-> FALSE, flush |-> FALSE, cycles |-> 0,
             res |-> "Ok", c |-> c]

WbI(id, val) == [some |-> TRUE, k |-> "I", id |-> id, val |-> val]

WbF(id, val) == [some |-> TRUE, k |-> "F", id |-> id, val |-> val]

FromBool(b) == IF b THEN <<0, 1>> ELSE <<0, 0>>

\* variant: the PC left where it is
instr_fetch_no_advance(c) ==
    LET r == get_from_pc(c.m, c.pc)
    IN  IF r.res = "Err" THEN [res |-> "Err", err |-> r.err, c |-> c]
        ELSE [res |-> "Ok", bin |-> r.val, old_pc |-> c.pc,
              pc_plus4 |-> wrapping_add(c.pc, <<0, 4>>),
              c |-> c]

\* instr_fetch: the PC is incremented as soon as the word has been read
instr_fetch(c) ==
    LET r == get_from_pc(c.m, c.pc)
    IN  IF r.res = "Err" THEN [res |-> "Err", err |-> r.err, c |-> c]
        ELSE [res |-> "Ok", bin |-> r.val, old_pc |-> c.pc,
              pc_plus4 |-> wrapping_add(c.pc, <<0, 4>>),
              c |-> [c EXCEPT !.pc = wrapping_add(c.pc, <<0, 4>>)]]

\* a >> b on u32: a logical shift; an amount of 32 or more panics under
\* overflow checks and is masked to its low 5 bits without them
shr(a, b) ==
    IF overflow_checks /\ (b[1] # 0 \/ b[2] >= 32) THEN [res |-> "Abort"]
    ELSE [res |-> "Ok", val |-> Shr32(a, b[2] % 32)]

\* a << b on u32, likewise
shl(a, b) ==
    IF overflow_checks /\ (b[1] # 0 \/ b[2] >= 32) THEN [res |-> "Abort"]
    ELSE [res |-> "Ok", val |-> Shl32(a, b[2] % 32)]

\* the write back of a shift result, or the panic
shifted(o, rd, r) ==
    IF r.res = "Abort" THEN [o EXCEPT !.res = "Abort"]
    ELSE [o EXCEPT !.wb_in = [some |-> TRUE, k |-> "I", id |-> rd, val |-> r.val]]

\* variant: the predicted direction committed as the new PC
branch_output_predicted(o, cond, prediction_result, target) ==
    [o EXCEPT !.new_pc = IF prediction_result THEN [some |-> TRUE, val |-> target] ELSE NoneV,
              !.flush = (prediction_result # cond),
              !.cycles = 1]

\* the ExecuteOutput of a branch: the target when the condition holds, a
\* flush when the prediction was wrong
branch_output(o, cond, prediction_result, target) ==
    [o EXCEPT !.new_pc = IF cond THEN [some |-> TRUE, val |-> target] ELSE NoneV,
              !.flush = (prediction_result # cond),
              !.cycles = 1]

\* variant: the predictor consulted and trained at the address of the branch
branch_own_pc(o, cond, target) ==
    branch_output([o EXCEPT !.c.branch_predictor =
                               update_state(o.c.branch_predictor,
                                            as_usize(wrapping_sub(o.c.pc, <<0, 4>>)), cond),
                            !.c.b_stat =
                               update_stat(o.c.b_stat,
                                           predict(o.c.branch_predictor,
                                                   as_usize(wrapping_sub(o.c.pc, <<0, 4>>))),
                                           cond)],
                  cond,
                  predict(o.c.branch_predictor, as_usize(wrapping_sub(o.c.pc, <<0, 4>>))),
                  target)

\* the B arm of execute: the predictor is consulted and trained at the PC,
\* which instr_fetch has already advanced, and the statistics updated
branch(o, cond, target) ==
    branch_output([o EXCEPT !.c.branch_predictor =
                               update_state(o.c.branch_predictor, as_usize(o.c.pc), cond),
                            !.c.b_stat =
                               update_stat(o.c.b_stat,
                                           predict(o.c.branch_predictor, as_usize(o.c.pc)),
                                           cond)],
                  cond, predict(o.c.branch_predictor, as_usize(o.c.pc)), target)

\* an f32 given by its bits is a NaN
f32_is_nan(a) == a[1] % 32768 > 32640 \/ (a[1] % 32768 = 32640 /\ a[2] # 0)

\* a == 0.0 on f32: +0.0 and -0.0
f32_is_zero(a) == a[1] % 32768 = 0 /\ a[2] = 0

\* a < b on f32: false with a NaN, -0.0 equal to +0.0
f32_lt(a, b) ==
    IF f32_is_nan(a) \/ f32_is_nan(b) \/ (f32_is_zero(a) /\ f32_is_zero(b)) THEN FALSE
    ELSE IF a[1] >= 32768 /\ b[1] < 32768 THEN TRUE
    ELSE IF a[1] < 32768 /\ b[1] >= 32768 THEN FALSE
    ELSE IF a[1] < 32768 THEN Lt(a, b)
    ELSE Lt(b, a)

\* a >= b on f32: false with a NaN
f32_ge(a, b) == ~f32_is_nan(a) /\ ~f32_is_nan(b) /\ ~f32_lt(a, b)

\* reg_fetch and execute; the register operands are read from c before
\* anything is written.  Float arithmetic is executed by no image of this
\* model and has no arm here.
execute(c, d, old_pc, pc_plus4) ==
    LET o == ExOut(c)
    IN  CASE d.tag = "R" ->
               LET rs1 == reg_get(c.reg, d.rs1)
                   rs2 == reg_get(c.reg, d.rs2)
                   o1  == [o EXCEPT !.cycles = 1]
               IN  IF d.instr = "Sll" THEN shifted(o1, d.rd, shl(rs1, rs2))
                   ELSE IF d.instr = "Sra" THEN shifted(o1, d.rd, shr(rs1, rs2))
                   ELSE
               LET val == CASE d.instr = "Add" -> wrapping_add(rs1, rs2)
                            [] d.instr = "Sub" -> wrapping_sub(rs1, rs2)
                            [] d.instr = "Xor" -> Xor32(rs1, rs2)
                            [] d.instr = "Or"  -> Or32(rs1, rs2)
                            [] d.instr = "And" -> And32(rs1, rs2)
                            [] d.instr = "Slt" -> FromBool(SLt(rs1, rs2))
               IN  [o1 EXCEPT !.wb_in = WbI(d.rd, val)]
          [] d.tag = "I" ->  \* cycles is left at its default, 0
               LET rs1 == reg_get(c.reg, d.rs1)
                   imm == d.imm
               IN (CASE d.instr = "Lw" ->
                          [o EXCEPT !.ma_in = [some |-> TRUE, k |-> "IMem", id |-> d.rd,
                                               addr |-> as_usize(wrapping_add(rs1, imm))]]
                     [] d.instr = "Jalr" ->
                          [o EXCEPT !.new_pc = [some |-> TRUE, val |-> wrapping_add(rs1, imm)],
                                    !.wb_in = WbI(d.rd, pc_plus4),
                                    !.flush = TRUE]
                     [] d.instr = "Addi" -> [o EXCEPT !.wb_in = WbI(d.rd, wrapping_add(rs1, imm))]
                     [] d.instr = "Xori" -> [o EXCEPT !.wb_in = WbI(d.rd, Xor32(rs1, imm))]
                     [] d.instr = "Ori"  -> [o EXCEPT !.wb_in = WbI(d.rd, Or32(rs1, imm))]
                     [] d.instr = "Andi" -> [o EXCEPT !.wb_in = WbI(d.rd, And32(rs1, imm))]
                     [] d.instr = "Slli" -> shifted(o, d.rd, shl(rs1, imm)))
          [] d.tag = "S" ->
               LET rs1 == reg_get(c.reg, d.rs1)
                   rs2 == reg_get(c.reg, d.rs2)
               IN  [o EXCEPT !.ma_in = [some |-> TRUE, k |-> "I",
                                        addr |-> as_usize(wrapping_add(rs1, d.imm)),
                                        val |-> rs2],
                             !.cycles = 1]
          [] d.tag = "B" ->
               LET rs1  == reg_get(c.reg, d.rs1)
                   rs2  == reg_get(c.reg, d.rs2)
                   cond == CASE d.instr = "Beq" -> rs1 = rs2
                             [] d.instr = "Bne" -> rs1 # rs2
                             [] d.instr = "Blt" -> SLt(rs1, rs2)
                             [] d.instr = "Bge" -> ~SLt(rs1, rs2)
               IN  branch(o, cond, wrapping_add(old_pc, d.imm))
          [] d.tag = "J" ->
               [o EXCEPT !.wb_in = WbI(d.rd, pc_plus4),
                         !.new_pc = [some |-> TRUE, val |-> wrapping_add(old_pc, d.imm)],
                         !.cycles = 1]
          [] d.tag = "IO" ->
              (CASE d.instr = "Outb" ->
                      [o EXCEPT !.c.output = outb(c.output, reg_get(c.reg, d.rs)[2] % 256),
                                !.cycles = 1]
                 [] d.instr = "Inw" ->
                      LET r == inw(c.input)
                      IN  IF r.res = "Abort" THEN [o EXCEPT !.res = "Abort"]
                          ELSE [o EXCEPT !.wb_in = WbI(d.rd, r.val), !.cycles = 1]
                 [] d.instr = "Finw" ->
                      LET r == inw(c.input)
                      IN  IF r.res = "Abort" THEN [o EXCEPT !.res = "Abort"]
                          ELSE [o EXCEPT !.wb_in = WbF(d.rd, r.val), !.cycles = 1])
          [] d.tag = "FW" ->
               branch(o,
                      IF d.instr = "Fblt"
                      THEN f32_lt(reg_get(c.freg, d.rs1), reg_get(c.freg, d.rs2))
                      ELSE f32_ge(reg_get(c.freg, d.rs1), reg_get(c.freg, d.rs2)),
                      wrapping_add(old_pc, d.imm))
          [] d.tag = "FV" ->
               branch(o,
                      IF d.instr = "Fbeqz"
                      THEN f32_is_zero(reg_get(c.freg, d.rs1))
                      ELSE ~f32_is_zero(reg_get(c.freg, d.rs1)),
                      wrapping_add(old_pc, d.imm))
          [] d.tag = "Flw" ->  \* cycles is left at its default, 0
               [o EXCEPT !.ma_in = [some |-> TRUE, k |-> "FMem", id |-> d.rd,
                                    addr |-> as_usize(wrapping_add(reg_get(c.reg, d.rs1), d.imm))]]
          [] d.tag = "Fsw" ->
               [o EXCEPT !.ma_in = [some |-> TRUE, k |-> "F",
                                    addr |-> as_usize(wrapping_add(reg_get(c.reg, d.rs1), d.imm)),
                                    val |-> reg_get(c.freg, d.rs2)],
                         !.cycles = 1]
          [] d.tag = "Misc" -> [o EXCEPT !.end = TRUE, !.cycles = 1]

\* variant: the stack is not in the BRAM
use_bram_without_stack(addr) == ~(UFits(addr) /\ BRAM_WORD_SIZE <= UToInt(addr))

\* use_bram of memory_access: the word is outside the DDR2 part of the RAM
use_bram(addr) ==
    ~(/\ UFits(addr)
      /\ BRAM_WORD_SIZE <= UToInt(addr)
      /\ UToInt(addr) < (RAM_BYTE_SIZE \div 4) - STACK_WORD_SIZE)

\* the cache access of memory_access, made when the word is not in the BRAM
ma_cache(c, addr) ==
    IF use_bram(addr) THEN [hit |-> FALSE, cache |-> c.cache]
    ELSE access_cache(c.cache, addr)

\* the result memory_access builds from the outcome r of its Memory call;
\* c is the Cpu after the cache access ac
ma_result(c, ma_in, spied, r, ac) ==
    IF r.res # "Ok" THEN [res |-> r.res, err |-> IF r.res = "Err" THEN r.err ELSE NoneV,
                          c |-> c, spied |-> spied, wb_in |-> NoneV]
    ELSE [res |-> "Ok",
          c |-> [c EXCEPT !.m = r.m,
                          !.read_stat = IF ma_in.k \in {"IMem", "FMem"} THEN stat_on_read(@)
                                        ELSE @,
                          !.c_stat = IF use_bram(ma_in.addr) THEN @
                                     ELSE CacheStat_update_stat(@, ac.hit)],
          spied |-> r.spied,
          wb_in |-> CASE ma_in.k = "IMem" -> WbI(ma_in.id, r.val.value)
                      [] ma_in.k = "FMem" -> WbF(ma_in.id, r.val.value)
                      [] OTHER -> NoneV,
          use_bram |-> use_bram(ma_in.addr),
          cycles |-> IF use_bram(ma_in.addr) THEN 1
                     ELSE IF ac.hit THEN 2 ELSE DDR2_ACCESS_CYCLES]

\* memory_access after its cache access ac
ma_after_cache(c, ma_in, spied, ac) ==
    ma_result([c EXCEPT !.cache = ac.cache], ma_in, spied,
              CASE ma_in.k = "I"    -> set(c.m, ma_in.addr, ma_in.val, spied)
                [] ma_in.k = "F"    -> set_f(c.m, ma_in.addr, ma_in.val, spied)
                [] ma_in.k = "IMem" -> get_i(c.m, ma_in.addr, spied)
                [] ma_in.k = "FMem" -> get_f(c.m, ma_in.addr, spied),
              ac)

memory_access(c, ma_in, spied) ==
    ma_after_cache(c, ma_in, spied, ma_cache(c, ma_in.addr))

\* variant: the two register files exchanged
write_back_swapped(c, wb_in) ==
    IF wb_in.k = "I"
    THEN [c EXCEPT !.freg = [c.freg EXCEPT ![wb_in.id] = wb_in.val]]
    ELSE [c EXCEPT !.reg = [c.reg EXCEPT ![wb_in.id] = wb_in.val]]

write_back(c, wb_in) ==
    IF wb_in.k = "I"
    THEN [c EXCEPT !.reg = reg_set(c.reg, wb_in.id, wb_in.val)]
    ELSE [c EXCEPT !.freg = reg_set(c.freg, wb_in.id, wb_in.val)]

CErr(c, e) == [res |-> "Err", err |-> e, flow |-> "Continue", spied |-> NoneV, c |-> c]

CAbort(c) == [res |-> "Abort", flow |-> "Continue", spied |-> NoneV, c |-> c]

\* variant: End treated as an ordinary instruction
CExit_continue(c) == [res |-> "Ok", flow |-> "Continue", spied |-> NoneV, c |-> c, cycles |-> 0]

\* the early return of cycle_one_full when execute reports end
CExit(c) == [res |-> "Ok", flow |-> "Exit", spied |-> NoneV, c |-> c, cycles |-> 0]

\* regid_is_included_in_srcs of calc_stall_cycles
regid_is_included_in_srcs(d, regid) ==
    CASE d.tag \in {"R", "S", "B"} -> d.rs1 = regid \/ d.rs2 = regid
      [] d.tag = "I" -> d.rs1 = regid
      [] d.tag = "IO" -> d.instr = "Outb" /\ d.rs = regid
      [] d.tag \in {"FX", "Flw", "Fsw"} -> d.rs1 = regid
      [] OTHER -> FALSE

\* fregid_is_included_in_srcs of calc_stall_cycles
fregid_is_included_in_srcs(d, fregid) ==
    CASE d.tag \in {"FE", "FK", "FW"} -> d.rs1 = fregid \/ d.rs2 = fregid
      [] d.tag \in {"FH", "FY", "FV"} -> d.rs1 = fregid
      [] d.tag = "Fsw" -> d.rs2 = fregid
      [] OTHER -> FALSE

\* the instruction d reads a register the pipeline entry stat will write
hazard(stat, d) ==
    \/ stat.write_back_id.some /\ regid_is_included_in_srcs(d, stat.write_back_id.val)
    \/ stat.float_write_back_id.some
          /\ fregid_is_included_in_srcs(d, stat.float_write_back_id.val)

stall_cycles_with_ex(stat, d) ==
    IF stat.some /\ hazard(stat, d)
    THEN CASE stat.result_ready_stage = "WriteBack" -> 2
           [] stat.result_ready_stage = "MemoryAccess" -> 1
           [] OTHER -> 0
    ELSE 0

\* variant: the MA slot counted like the EX slot
stall_cycles_with_ma_as_ex(stat, d) ==
    IF stat.some /\ hazard(stat, d)
    THEN CASE stat.result_ready_stage = "WriteBack" -> 2
           [] stat.result_ready_stage = "MemoryAccess" -> 1
           [] OTHER -> 0
    ELSE 0

stall_cycles_with_ma(stat, d) ==
    IF stat.some /\ hazard(stat, d)
    THEN CASE stat.result_ready_stage = "WriteBack" -> 1
           [] OTHER -> 0
    ELSE 0

Max(a, b) == IF a >= b THEN a ELSE b

calc_stall_cycles(pipeline, d) ==
    Max(stall_cycles_with_ex(pipeline[1], d), stall_cycles_with_ma(pipeline[2], d))

\* VecDeque::pop_back
pop_back(q) == IF q = <<>> THEN q ELSE SubSeq(q, 1, Len(q) - 1)

\* variant: the MA cycles of the front record are not taken into account
push_instr_ex_only(p, instr) ==
    [pipeline_state |-> <<instr>> \o pop_back(p.pipeline_state),
     cycles |-> p.cycles + (IF instr.some THEN instr.ex_cycles ELSE 1),
     ok |-> p.ok /\ Len(<<instr>> \o pop_back(p.pipeline_state)) = PIPELINE_LEN]

\* push_instr_to_pipeline_and_get_cycles on the pipeline p.pipeline_state,
\* the cycles added to p.cycles; ok is the assert_eq! on the length
push_instr_to_pipeline_and_get_cycles(p, instr) ==
    [pipeline_state |-> <<instr>> \o pop_back(p.pipeline_state),
     cycles |-> p.cycles + Max(IF instr.some THEN instr.ex_cycles ELSE 1,
                               IF p.pipeline_state[1].some
                               THEN p.pipeline_state[1].ma_cycles ELSE 1),
     ok |-> p.ok /\ Len(<<instr>> \o pop_back(p.pipeline_state)) = PIPELINE_LEN]

\* n pushes of None
RECURSIVE push_bubbles(_, _)
push_bubbles(p, n) ==
    IF n = 0 THEN p
    ELSE push_bubbles(push_instr_to_pipeline_and_get_cycles(p, NoneV), n - 1)

\* the PipelineStat of the instruction: x from execute, ma from the memory
\* stage, wb the write back made
PipelineStat(x, ma, wb) ==
    [some |-> TRUE,
     ex_cycles |-> x.cycles,
     ma_cycles |-> ma.cycles,
     result_ready_stage |->
         IF ma.wb_in.some
         THEN (IF ma.use_bram THEN "WriteBack" ELSE "MemoryAccess")
         ELSE (IF x.use_fpu THEN "MemoryAccess" ELSE "Execute"),
     write_back_id |-> IF wb.some /\ wb.k = "I" THEN [some |-> TRUE, val |-> wb.id]
                       ELSE NoneV,
     float_write_back_id |-> IF wb.some /\ wb.k = "F" THEN [some |-> TRUE, val |-> wb.id]
                             ELSE NoneV]

\* the update of the pipeline state that ends cycle_one_full
update_pipeline(pipeline, d, stat, flush) ==
    push_bubbles(
        push_instr_to_pipeline_and_get_cycles(
            push_bubbles([pipeline_state |-> pipeline, cycles |-> 0, ok |-> TRUE],
                         calc_stall_cycles(pipeline, d)),
            stat),
        IF flush THEN 2 ELSE 0)

\* the CycleResult; c is the Cpu after write back, p the updated pipeline
tick_result(ma, c, p) ==
    IF ~p.ok THEN CAbort(c)
    ELSE [res |-> "Ok",
          flow |-> IF ma.spied.some THEN "Break" ELSE "Continue",
          spied |-> ma.spied,
          c |-> [c EXCEPT !.pipeline_state = p.pipeline_state],
          cycles |-> p.cycles]

\* cycle_one_full, last stages: write back of wb after the memory stage ma,
\* then the update of the pipeline state
tick_write_back(d, x, ma, wb) ==
    tick_result(ma,
                IF wb.some THEN write_back(ma.c, wb) ELSE ma.c,
                update_pipeline(ma.c.pipeline_state, d, PipelineStat(x, ma, wb), x.flush))

\* cycle_one_full after the memory stage returned ma
tick_after_memory(d, x, ma) ==
    IF ma.res = "Err" THEN CErr(ma.c, ma.err)
    ELSE IF ma.res = "Abort" THEN CAbort(ma.c)
    ELSE tick_write_back(d, x, ma, IF ma.wb_in.some THEN ma.wb_in ELSE x.wb_in)

\* cycle_one_full from the PC commit on; c1 is the Cpu with the PC committed
tick_memory(d, x, c1) ==
    tick_after_memory(d, x,
                      IF x.ma_in.some THEN memory_access(c1, x.ma_in, NoneV)
                      ELSE [res |-> "Ok", c |-> c1, spied |-> NoneV, wb_in |-> NoneV,
                            use_bram |-> FALSE, cycles |-> 1])

\* cycle_one_full after execute returned x
tick_after_execute(d, x) ==
    IF x.res = "Abort" THEN CAbort(x.c)
    ELSE IF x.end THEN CExit(x.c)
    ELSE tick_memory(d, x, IF x.new_pc.some THEN [x.c EXCEPT !.pc = x.new_pc.val] ELSE x.c)

\* the read counters after reg_fetch has read the sources of d
reg_fetch(s, d) ==
    CASE d.tag \in {"R", "S", "B"} -> encounter_read(encounter_read(s, d.rs1), d.rs2)
      [] d.tag \in {"I", "FX", "Flw"} -> encounter_read(s, d.rs1)
      [] d.tag = "IO" /\ d.instr = "Outb" -> encounter_read(s, d.rs)
      [] d.tag \in {"FE", "FK", "FW"} -> encounter_read_f(encounter_read_f(s, d.rs1), d.rs2)
      [] d.tag \in {"FH", "FY", "FV"} -> encounter_read_f(s, d.rs1)
      [] d.tag = "Fsw" -> encounter_read(encounter_read_f(s, d.rs2), d.rs1)
      [] OTHER -> s

\* variant: an invalid word leaves the PC at the word
tick_after_decode_restoring(f, d) ==
    IF d.tag = "Invalid"
    THEN CErr([f.c EXCEPT !.pc = f.old_pc], [kind |-> "Invalid", bin |-> d.bin])
    ELSE IF d.tag = "Abort" THEN CAbort(f.c)
    ELSE tick_after_execute(d, execute([f.c EXCEPT !.read_stat = reg_fetch(@, d)],
                                       d, f.old_pc, f.pc_plus4))

\* cycle_one_full after the fetch f decoded to d
tick_after_decode(f, d) ==
    IF d.tag = "Invalid" THEN CErr(f.c, [kind |-> "Invalid", bin |-> d.bin])
    ELSE IF d.tag = "Abort" THEN CAbort(f.c)
    ELSE tick_after_execute(d, execute([f.c EXCEPT !.read_stat = reg_fetch(@, d)],
                                       d, f.old_pc, f.pc_plus4))

\* cycle_one_full after instr_fetch returned f
tick_after_fetch(f) ==
    IF f.res = "Err" THEN CErr(f.c, f.err)
    ELSE tick_after_decode(f, decode_from(f.bin))

\* one tick: fetch, decode, register read, execute, PC commit, memory
\* access, write back
cycle_one_full(c) == tick_after_fetch(instr_fetch(c))

\* Cpu::get_data_and_text_len
get_data_and_text_len(mem) ==
    <<from_le_bytes(SubSeq(mem, 1, 4)), from_le_bytes(SubSeq(mem, 5, 8))>>

\* Cpu::new together with Memory::new and Memory::init_from_slice
Cpu_new(mem) ==
    LET data_len   == get_data_and_text_len(mem)[1]
        text_len   == get_data_and_text_len(mem)[2]
        text_begin == Shl32(data_len, 2)
        text_end   == wrapping_add(text_begin, Shl32(text_len, 2))
    IN  [pc    |-> Shl32(data_len, 2),
         reg   |-> [i \in RegIds |->
                       CASE i = 4 -> wrapping_add(data_len, text_len)
                         [] i = 2 -> U32((RAM_BYTE_SIZE \div 4) - 1)
                         [] OTHER -> <<0, 0>>],
         freg  |-> [i \in RegIds |-> IF i = 1 THEN <<16256, 0>> ELSE <<0, 0>>],
         m     |-> [inner |-> [i \in 0..(Len(mem) - 9) |-> mem[i + 9]],
                    ty |-> <<>>,
                    instr_mem_range |-> [start |-> ToInt(text_begin), end |-> ToInt(text_end)],
                    spy |-> [on_read |-> {}, on_write |-> {}]],
         input  |-> [content |-> <<>>, read_index |-> 0],
         output |-> <<>>,
         branch_predictor |-> BranchPredictor_new,
         b_stat |-> BranchStat_default,
         c_stat |-> CacheStat_default,
         read_stat |-> ReadStat_default,
         cache |-> Cache_new,
         pipeline_state |-> [i \in 1..PIPELINE_LEN |-> NoneV]]

----------------------------------------------------------------------------
(* debug_symbol.rs: the vector sorted, of records [addr, label]; the index
   of the element i of a Vec is i - 1 *)

\* sorted.sort_by_key(addr), a stable sort: e put after the elements of
\* the sorted v that are not above it
RECURSIVE insert_by_key(_, _)
insert_by_key(v, e) ==
    IF v = <<>> THEN <<e>>
    ELSE IF Head(v).addr <= e.addr THEN <<Head(v)>> \o insert_by_key(Tail(v), e)
    ELSE <<e>> \o v

RECURSIVE sort(_)
sort(v) == IF v = <<>> THEN v ELSE insert_by_key(sort(SubSeq(v, 1, Len(v) - 1)), v[Len(v)])

\* DebugSymbol::merge
merge(sorted, other) == sort(sorted \o other)

\* sorted.binary_search_by_key(&addr, addr) on a vector without equal keys:
\* Ok(index) of the element with the key, or Err(index) of the place where
\* it could be inserted
binary_search_by_key(sorted, addr) ==
    IF \E i \in 1..Len(sorted) : sorted[i].addr = addr
    THEN [ok |-> TRUE, index |-> (CHOOSE i \in 1..Len(sorted) : sorted[i].addr = addr) - 1]
    ELSE [ok |-> FALSE, index |-> Cardinality({i \in 1..Len(sorted) : sorted[i].addr < addr})]

\* DebugSymbol::get_nearest_symbol_addr; "Abort" is the index past the end
\* of sorted
get_nearest_symbol_addr(sorted, addr) ==
    IF sorted = <<>> THEN [res |-> "Err", err |-> "debug symbol not provided."]
    ELSE LET r == binary_search_by_key(sorted, addr)
         IN  IF r.ok THEN [res |-> "Ok", index |-> r.index]
             ELSE IF r.index >= Len(sorted) THEN [res |-> "Abort"]
             ELSE IF addr < sorted[r.index + 1].addr
             THEN (IF r.index = 0
                   THEN [res |-> "Err", err |-> "do not have any debug information"]
                   ELSE [res |-> "Ok", index |-> r.index - 1])
             ELSE [res |-> "Ok", index |-> r.index]

\* DebugSymbol::get_symbol
get_symbol(sorted, index) ==
    [raw |-> sorted[index + 1],
     size |-> IF index + 2 <= Len(sorted)
              THEN [some |-> TRUE, val |-> sorted[index + 2].addr - sorted[index + 1].addr]
              ELSE [some |-> FALSE]]

----------------------------------------------------------------------------
(* binary images: data_len, text_len, then the data and text words *)

RECURSIVE WordsToBytes(_)
WordsToBytes(ws) == IF ws = <<>> THEN <<>> ELSE to_le_bytes(Head(ws)) \o WordsToBytes(Tail(ws))

Image(data_len, text_len, body) == WordsToBytes(<<U32(data_len), U32(text_len)>> \o body)

\* end
ImgEnd == Image(0, 1, << <<0, 0>> >>)

\* addi t0, zero, 7; addi t1, zero, 5; add t2, t0, t1; sw t2, 0(hp); end
ImgAdd == Image(0, 5, << <<112, 659>>, <<80, 787>>, <<98, 33715>>, <<114, 8227>>, <<0, 0>> >>)

\* .data 0xDEADBEEF; lw t0, 0(zero); sw t0, 100(zero); lw t1, 100(zero); end
ImgSpy == Image(1, 4, << <<57005, 48879>>, <<0, 8835>>, <<1616, 8739>>, <<1600, 8963>>, <<0, 0>> >>)

\* addi a0, zero, 4; loop: addi a0, a0, -1; bne a0, zero, loop; end
ImgLoop == Image(0, 4, << <<64, 1299>>, <<65525, 1299>>, <<65029, 7907>>, <<0, 0>> >>)

\* addi t0, zero, 1; lw t1, 0(zero); end      (the load hits the text)
ImgFail == Image(0, 3, << <<16, 659>>, <<0, 8963>>, <<0, 0>> >>)

\* addi t0, zero, 1; 0xffffffff               (no such opcode)
ImgInvalid == Image(0, 2, << <<16, 659>>, <<65535, 65535>> >>)

Images == {ImgEnd, ImgAdd, ImgSpy, ImgLoop, ImgFail, ImgInvalid}

----------------------------------------------------------------------------
(* common.rs, sim.rs *)

\* largest explicit step count of a RunStep option tried by the model
MaxStep == 2

\* cycle, fatal_error, debug_symbol: fields of Simulator (of debug_symbol
\* the vector sorted; the globals are not modelled)
\* sim_pos, is_enter, opt, step_left: position and locals of single_cycle
\* ret: the value the last single_cycle call returned
\* ret_watchings: the watchings of the OnBreak it returned
\* last_op, entry, had_failed: what the caller has seen so far
VARIABLES cycle, fatal_error, sim_pos, is_enter, opt, step_left, ret,
          last_op, entry, had_failed, elapsed_clocks, ret_watchings, debug_symbol

\* results of the Memory operations called directly (MemSpec)
VARIABLES mres, mspied

timing_vars == <<branch_predictor, cache, pipeline_state, b_stat, c_stat>>

\* the Cpu without the read counters
core_vars == <<pc, reg_inner, reg_inner_f, input, output, inner, ty, instr_mem_range, spy,
               timing_vars>>

cpu_vars == <<core_vars, read_stat>>

sim_vars == <<cycle, fatal_error, sim_pos, is_enter, opt, step_left, ret,
              last_op, entry, had_failed, elapsed_clocks, ret_watchings, debug_symbol>>

mem_vars == <<mres, mspied>>

build_vars == <<typed_memory, overflow_checks>>

vars == <<cpu_vars, build_vars, sim_vars, mem_vars>>

Usize(n) == <<0, 0, n \div H16, n % H16>>

\* variant: an omitted count read as zero
get_step_or_zero(r) == IF r.some THEN r.val ELSE 0

\* RunStep::get_step
get_step(r) == IF r.some THEN r.val ELSE 1

BpAddrs == {Usize(4), Usize(8)}

SpyAddrs == {Usize(100)}

Modes == {[k |-> "Run"]}
         \cup {[k |-> "SkipUntil", pc |-> a] : a \in BpAddrs}
         \cup {[k |-> "RunStep", step |-> NoneV]}
         \cup {[k |-> "RunStep", step |-> [some |-> TRUE, val |-> n]] : n \in 0..MaxStep}

\* Watchings::default()
NoWatchings == [reg |-> <<>>, freg |-> <<>>, memory |-> <<>>]

Opts == {[mode |-> md, breakpoints |-> bps, watchings |-> NoWatchings] :
            md \in Modes, bps \in SUBSET BpAddrs}

SetCpu(c) ==
    /\ pc' = c.pc
    /\ reg_inner' = c.reg
    /\ reg_inner_f' = c.freg
    /\ input' = c.input
    /\ output' = c.output
    /\ inner' = c.m.inner
    /\ ty' = c.m.ty
    /\ instr_mem_range' = c.m.instr_mem_range
    /\ spy' = c.m.spy
    /\ branch_predictor' = c.branch_predictor
    /\ cache' = c.cache
    /\ pipeline_state' = c.pipeline_state
    /\ b_stat' = c.b_stat
    /\ c_stat' = c.c_stat

\* the Cpu c, then add_mem_spy for the kinds k on a
InitCpu(c, k, a) ==
    /\ pc = c.pc
    /\ reg_inner = c.reg
    /\ reg_inner_f = c.freg
    /\ inner = c.m.inner
    /\ ty = c.m.ty
    /\ instr_mem_range = c.m.instr_mem_range
    /\ spy = add_spy(c.m, k, a).spy
    /\ input = c.input
    /\ output = c.output
    /\ branch_predictor = c.branch_predictor
    /\ cache = c.cache
    /\ pipeline_state = c.pipeline_state
    /\ b_stat = c.b_stat
    /\ c_stat = c.c_stat
    /\ read_stat = c.read_stat

\* Simulator::new around the Cpu c, under any build
InitSim ==
    /\ typed_memory \in BOOLEAN
    /\ overflow_checks \in BOOLEAN
    /\ cycle = 0
    /\ elapsed_clocks = 0
    /\ fatal_error = NoneV
    /\ sim_pos = "idle"
    /\ is_enter = FALSE
    /\ opt = [mode |-> [k |-> "Run"], breakpoints |-> {}, watchings |-> NoWatchings]
    /\ step_left = 0
    /\ ret = [kind |-> "None"]
    /\ ret_watchings = NoneV
    /\ debug_symbol = <<>>
    /\ last_op = "new"
    /\ entry = [cycle |-> 0, pc |-> pc, failed |-> FALSE, ticks |-> 0]
    /\ had_failed = FALSE
    /\ mres = [op |-> "none", n |-> 0]
    /\ mspied = NoneV

\* Simulator::new on the image img, then add_mem_spy for the kinds k on a
InitFrom(img, k, a) == InitCpu(Cpu_new(img), k, a) /\ InitSim

Init == \E img \in Images : InitFrom(img, {}, Usize(0))

Break(reason) == [kind |-> "Break", reason |-> reason]

\* variant: no error is fatal
is_fatal_never(e) == FALSE

\* RuntimeError::level().is_fatal(): every runtime error is Fatal
is_fatal(e) == TRUE

\* Simulator::do_break
do_break(bp) == TRUE

\* variant: the breakpoint test without the first-iteration exemption
ConsultBreakpoints_always(enter, breakpoints, addr) == addr \in breakpoints

\* the breakpoint test of execute!: skipped on the first iteration
ConsultBreakpoints(enter, breakpoints, addr) ==
    ~enter /\ addr \in breakpoints /\ do_break(addr)

\* variant: the target test without the first-iteration exemption
ReachedTarget_always(enter, target, p) == target = as_usize(p)

\* the test at the top of the SkipUntil loop
ReachedTarget(enter, target, p) == ~enter /\ target = as_usize(p)

Return(r) ==
    /\ sim_pos' = "idle"
    /\ ret' = r
    /\ had_failed' = (had_failed \/ (r.kind = "Break" /\ r.reason.k = "Failed"))

\* RegId::ty
RegId_ty(id) == IF id = 1 THEN "Usize" ELSE "I32"

\* the elements of a Vec
Range(v) == {v[i] : i \in 1..Len(v)}

\* Simulator::gather_watchings on the Cpu c; "Abort" is the unwrap of a
\* get_mem that failed
gather_watchings(c, w) ==
    IF \E a \in Range(w.memory) : get(c.m, a, NoneV).res # "Ok"
    THEN [res |-> "Abort"]
    ELSE [res |-> "Ok",
          reg_map |-> [id \in Range(w.reg) |->
                          [value |-> reg_get(c.reg, id), ty |-> RegId_ty(id)]],
          freg_map |-> [id \in Range(w.freg) |-> reg_get(c.freg, id)],
          memory_map |-> [a \in Range(w.memory) |-> get(c.m, a, NoneV).val]]

\* encounter_read once for every element of the Vec v
RECURSIVE get_reg_each(_, _)
get_reg_each(s, v) == IF v = <<>> THEN s ELSE get_reg_each(encounter_read(s, Head(v)), Tail(v))

RECURSIVE get_freg_each(_, _)
get_freg_each(s, v) ==
    IF v = <<>> THEN s ELSE get_freg_each(encounter_read_f(s, Head(v)), Tail(v))

\* the read counters after gather_watchings: get_reg, get_freg and get_mem
\* go through RegFile::get, RegFile::get_f and Memory::get
gather_reads(s, w) ==
    [get_freg_each(get_reg_each(s, w.reg), w.freg) EXCEPT !.stat_mem = @ + Len(w.memory)]

\* Simulator::break_sim under the option o, on the Cpu c
break_sim(o, c, reason) ==
    IF gather_watchings(c, o.watchings).res = "Abort"
    THEN /\ sim_pos' = "aborted"       \* the process is gone, and its counters
         /\ read_stat' = c.read_stat
         /\ UNCHANGED <<ret, had_failed, ret_watchings>>
    ELSE /\ Return(Break(reason))
         /\ read_stat' = gather_reads(c.read_stat, o.watchings)
         /\ ret_watchings' = [some |-> TRUE, val |-> gather_watchings(c, o.watchings)]

\* single_cycle up to the mode dispatch
Call(o) ==
    /\ sim_pos = "idle"
    /\ opt' = o
    /\ last_op' = "single_cycle"
    /\ entry' = [cycle |-> cycle, pc |-> pc, failed |-> had_failed, ticks |-> 0]
    /\ UNCHANGED <<core_vars, build_vars, cycle, elapsed_clocks, fatal_error, debug_symbol,
                   mem_vars>>
    /\ IF fatal_error.some
       THEN /\ break_sim(o, Cpu, [k |-> "CannotRestart"])
            /\ UNCHANGED <<is_enter, step_left>>
       ELSE /\ is_enter' = TRUE
            /\ step_left' = IF o.mode.k = "RunStep" THEN get_step(o.mode.step) ELSE 0
            /\ IF o.mode.k = "RunStep" /\ get_step(o.mode.step) = 0
               THEN break_sim(o, Cpu, [k |-> "StepEnded"])
               ELSE /\ sim_pos' = "running"
                    /\ ret' = [kind |-> "None"]
                    /\ ret_watchings' = NoneV
                    /\ UNCHANGED <<had_failed, read_stat>>

\* the execute! macro on the result r of the tick
Outcome(r) ==
        /\ is_enter' = FALSE
        /\ SetCpu(r.c)
        /\ entry' = [entry EXCEPT !.ticks = @ + 1]
        /\ CASE r.res = "Abort" ->
                  /\ sim_pos' = "aborted"
                  /\ read_stat' = r.c.read_stat
                  /\ UNCHANGED <<cycle, elapsed_clocks, fatal_error, step_left, ret, had_failed,
                                 ret_watchings>>
             [] r.res = "Err" ->
                  /\ fatal_error' = IF is_fatal(r.err) THEN [some |-> TRUE, err |-> r.err]
                                     ELSE fatal_error
                  /\ break_sim(opt, r.c, [k |-> "Failed"])
                  /\ UNCHANGED <<cycle, elapsed_clocks, step_left>>
             [] r.res = "Ok" ->
                  /\ elapsed_clocks' = elapsed_clocks + r.cycles
                  /\ cycle' = cycle + 1
                  /\ UNCHANGED fatal_error
                  /\ CASE r.flow = "Continue" ->
                            IF opt.mode.k = "RunStep"
                            THEN /\ step_left' = step_left - 1
                                 /\ IF step_left = 1
                                    THEN break_sim(opt, r.c, [k |-> "StepEnded"])
                                    ELSE /\ read_stat' = r.c.read_stat
                                         /\ UNCHANGED <<sim_pos, ret, had_failed,
                                                        ret_watchings>>
                            ELSE /\ read_stat' = r.c.read_stat
                                 /\ UNCHANGED <<sim_pos, ret, had_failed, ret_watchings,
                                                step_left>>
                       [] r.flow = "Break" ->
                            /\ break_sim(opt, r.c, [k |-> "Spy", spy |-> r.spied])
                            /\ UNCHANGED step_left
                       [] r.flow = "Exit" ->
                            /\ Return([kind |-> "Exit"])
                            /\ read_stat' = r.c.read_stat
                            /\ ret_watchings' = NoneV
                            /\ UNCHANGED step_left

\* the execute! macro after its breakpoint test: one tick and its outcome
Execute == Outcome(cycle_one_full(Cpu))

\* one iteration of the loop of the mode in opt
Iterate ==
    /\ sim_pos = "running"
    /\ UNCHANGED <<build_vars, opt, last_op, debug_symbol, mem_vars>>
    /\ IF opt.mode.k = "SkipUntil" /\ ReachedTarget(is_enter, opt.mode.pc, pc)
       THEN /\ break_sim(opt, Cpu, [k |-> "Reached", addr |-> opt.mode.pc])
            /\ UNCHANGED <<core_vars, cycle, elapsed_clocks, fatal_error, is_enter, step_left,
                           entry>>
       ELSE IF ConsultBreakpoints(is_enter, opt.breakpoints, as_usize(pc))
       THEN /\ break_sim(opt, Cpu, [k |-> "BreakPoint", addr |-> as_usize(pc)])
            /\ UNCHANGED <<core_vars, cycle, elapsed_clocks, fatal_error, is_enter, step_left,
                           entry>>
       ELSE Execute

SpyKinds == {{"Read"}, {"Write"}}

\* Cpu::add_mem_spy between two calls
AddSpy(k, a) ==
    /\ sim_pos = "idle"
    /\ spy' = add_spy(Memory, k, a).spy
    /\ UNCHANGED <<pc, reg_inner, reg_inner_f, input, output, inner, ty, instr_mem_range,
                   timing_vars, read_stat, build_vars, cycle, elapsed_clocks, fatal_error,
                   sim_pos, is_enter, opt, step_left, ret, ret_watchings, debug_symbol,
                   last_op, entry, had_failed, mem_vars>>

\* Cpu::remove_mem_spy between two calls
RemoveSpy(k, a) ==
    /\ sim_pos = "idle"
    /\ spy' = remove_spy(Memory, k, a).spy
    /\ UNCHANGED <<pc, reg_inner, reg_inner_f, input, output, inner, ty, instr_mem_range,
                   timing_vars, read_stat, build_vars, cycle, elapsed_clocks, fatal_error,
                   sim_pos, is_enter, opt, step_left, ret, ret_watchings, debug_symbol,
                   last_op, entry, had_failed, mem_vars>>

\* Simulator::provide_dbg_symb
provide_dbg_symb(sorted, other) == IF other # <<>> THEN merge(sorted, other) ELSE sorted

\* the rows of disassemble_near from the row disp on: n rows from begin,
\* up to the first address outside the instructions
RECURSIVE disassemble_rows(_, _, _, _, _)
disassemble_rows(m, cursor, begin, disp, n) ==
    IF disp >= n \/ get_from_pc(m, U32(begin + 4 * disp)).res # "Ok" THEN <<>>
    ELSE << [special |-> cursor = U32(begin + 4 * disp),
             addr |-> begin + 4 * disp,
             bin |-> get_from_pc(m, U32(begin + 4 * disp)).val,
             decoded |-> decode_from(get_from_pc(m, U32(begin + 4 * disp)).val)] >>
         \o disassemble_rows(m, cursor, begin, disp + 1, n)

\* disassemble_near from the symbol def on: the listing of len bytes from
\* begin, len >> 2 rows; "Abort" is an assertion of the decoder
disassemble_listing(m, cursor, def, omitted_head, begin, omitted_tail, rows) ==
    IF \E i \in 1..Len(rows) : rows[i].decoded.tag = "Abort" THEN [res |-> "Abort"]
    ELSE [res |-> "Ok", label |-> def.raw.label, label_addr |-> def.raw.addr,
          omitted_head |-> omitted_head, rows |-> rows, omitted_tail |-> omitted_tail]

\* disassemble_near after the symbol def was found, the window given in bytes
disassemble_window(m, cursor, do_fold, window_size_half, def, begin, end) ==
    IF ~(do_fold /\ begin + (window_size_half * 2 + 4) < end) /\ end < begin /\ overflow_checks
    THEN [res |-> "Abort"]
    ELSE disassemble_listing(
             m, cursor, def,
             do_fold /\ def.raw.addr + window_size_half < ToInt(cursor),
             begin,
             do_fold /\ begin + (window_size_half * 2 + 4) < end,
             disassemble_rows(m, cursor, begin, 0,
                 IF do_fold /\ begin + (window_size_half * 2 + 4) < end
                 THEN (window_size_half * 2 + 4) \div 4
                 ELSE IF end >= begin THEN (end - begin) \div 4
                 ELSE 1073741824 - ((begin - end + 3) \div 4)))

\* disassemble_near after the symbol was looked up with the result r
disassemble_symbol(m, sorted, cursor, do_fold, window_size_half, r) ==
    IF r.res # "Ok" THEN r
    ELSE disassemble_window(
             m, cursor, do_fold, window_size_half, get_symbol(sorted, r.index),
             IF do_fold /\ get_symbol(sorted, r.index).raw.addr + window_size_half < ToInt(cursor)
             THEN ToInt(cursor) - window_size_half
             ELSE get_symbol(sorted, r.index).raw.addr,
             get_symbol(sorted, r.index).raw.addr
             + (IF get_symbol(sorted, r.index).size.some
                THEN get_symbol(sorted, r.index).size.val
                ELSE window_size_half * 2 + 4 + 1))

\* Simulator::disassemble_near under the option o = [addr, do_fold,
\* window_size_half], on the Cpu c and the symbols sorted
disassemble_near(c, sorted, o) ==
    disassemble_symbol(
        c.m, sorted,
        IF o.addr.some THEN o.addr.val ELSE c.pc,
        o.do_fold,
        (IF o.window_size_half.some THEN o.window_size_half.val ELSE 4) * 4,
        get_nearest_symbol_addr(sorted, ToInt(IF o.addr.some THEN o.addr.val ELSE c.pc)))

Next ==
    \/ \E o \in Opts : Call(o)
    \/ Iterate
    \/ \E k \in SpyKinds, a \in SpyAddrs : AddSpy(k, a)
    \/ \E k \in SpyKinds, a \in SpyAddrs : RemoveSpy(k, a)

Spec == Init /\ [][Next]_vars

----------------------------------------------------------------------------------------------------------------------------------------
(* the Memory operations called directly, on the memory of a fresh CPU *)

\* number of Memory operations in a run of MemSpec
MaxOps == 2

MemAddrs == {Usize(0), Usize(1), Usize(4), Usize(5),
             Usize((RAM_BYTE_SIZE \div 4) - 1), Usize(RAM_BYTE_SIZE \div 4),
             <<16384, 0, 0, 0>>}

MemPcs == {U32(0), U32(3), U32(4), U32(16), U32(19), U32(20)}

MemVals == {<<57005, 48879>>, <<0, 12>>}

MemFVals == {<<16256, 0>>}

MemInit ==
    \E img \in {ImgEnd, ImgSpy}, k \in {{}, {"Read", "Write"}} : InitFrom(img, k, Usize(5))

MemFrame == UNCHANGED <<pc, reg_inner, reg_inner_f, input, output, instr_mem_range,
                        timing_vars, build_vars, sim_vars>>

\* get, get_i and get_f that succeed have called Memory::on_read
MemReads(op, r) ==
    IF r.res = "Ok" /\ op \in {"get", "get_i", "get_f"} THEN stat_on_read(read_stat)
    ELSE read_stat

MemApply(op, a, v, r) ==
    /\ mres.n < MaxOps
    /\ mres' = [op |-> op, addr |-> a, arg |-> v, res |-> r.res,
                val |-> IF r.res = "Ok" /\ op \in {"get", "get_i", "get_f"} THEN r.val ELSE NoneV,
                err |-> IF r.res = "Err" THEN r.err ELSE NoneV,
                n |-> mres.n + 1]
    /\ mspied' = r.spied
    /\ inner' = r.m.inner
    /\ ty' = r.m.ty
    /\ spy' = r.m.spy
    /\ read_stat' = MemReads(op, r)
    /\ MemFrame

MemGet(a) == MemApply("get", a, NoneV, get(Memory, a, mspied))

MemGetI(a) == MemApply("get_i", a, NoneV, get_i(Memory, a, mspied))

MemGetF(a) == MemApply("get_f", a, NoneV, get_f(Memory, a, mspied))

MemSet(a, v) == MemApply("set", a, v, set(Memory, a, v, mspied))

MemSetF(a, v) == MemApply("set_f", a, v, set_f(Memory, a, v, mspied))

MemGetFromPc(p) ==
    LET r == get_from_pc(Memory, p)
    IN  /\ mres.n < MaxOps
        /\ mres' = [op |-> "get_from_pc", addr |-> p, arg |-> NoneV, res |-> r.res,
                    val |-> IF r.res = "Ok" THEN [value |-> r.val, ty |-> "Unknown"] ELSE NoneV,
                    err |-> IF r.res = "Err" THEN r.err ELSE NoneV,
                    n |-> mres.n + 1]
        /\ UNCHANGED <<mspied, inner, ty, spy, read_stat>>
        /\ MemFrame

MemNext ==
    \/ \E a \in MemAddrs : MemGet(a)
    \/ \E a \in MemAddrs : MemGetI(a)
    \/ \E a \in MemAddrs : MemGetF(a)
    \/ \E a \in MemAddrs, v \in MemVals : MemSet(a, v)
    \/ \E a \in MemAddrs, v \in MemFVals : MemSetF(a, v)
    \/ \E p \in MemPcs : MemGetFromPc(p)

MemSpec == MemInit /\ [][MemNext]_vars

----------------------------------------------------------------------------
(* RegFile operations and single ticks called directly on a fresh Cpu *)

\* largest number of direct register operations and ticks in a run
MaxRegOps == 2

RegTestIds == {0, 1, 5, 31}

RegVals == {<<0, 7>>, <<65535, 65535>>}

RegInit == \E img \in {ImgAdd, ImgLoop} : InitFrom(img, {}, Usize(0))

RegFrame == UNCHANGED <<pc, input, output, inner, ty, instr_mem_range, spy,
                        timing_vars, read_stat, build_vars, sim_vars, mspied>>

\* RegFile::set(id, val)
RegSet(id, val) ==
    /\ mres.n < MaxRegOps
    /\ reg_inner' = reg_set(reg_inner, id, val)
    /\ mres' = [op |-> "reg_set", id |-> id, arg |-> val, n |-> mres.n + 1]
    /\ UNCHANGED reg_inner_f
    /\ RegFrame

\* RegFile::set_f(id, val)
RegSetF(id, val) ==
    /\ mres.n < MaxRegOps
    /\ reg_inner_f' = reg_set(reg_inner_f, id, val)
    /\ mres' = [op |-> "reg_set_f", id |-> id, arg |-> val, n |-> mres.n + 1]
    /\ UNCHANGED reg_inner
    /\ RegFrame

\* the Cpu after a tick with result r
TickResult(r) ==
    /\ SetCpu(r.c)
    /\ read_stat' = r.c.read_stat
    /\ mres' = [op |-> "tick", res |-> r.res, flow |-> r.flow,
                err |-> IF r.res = "Err" THEN r.err ELSE NoneV,
                cycles |-> IF r.res = "Ok" THEN r.cycles ELSE 0, n |-> mres.n + 1]
    /\ mspied' = r.spied
    /\ UNCHANGED <<build_vars, sim_vars>>

\* Cpu::cycle_one_full called directly
RegTick ==
    /\ mres.n < MaxRegOps
    /\ TickResult(cycle_one_full(Cpu))

RegNext ==
    \/ \E id \in RegTestIds, v \in RegVals : RegSet(id, v)
    \/ \E id \in RegTestIds, v \in RegVals : RegSetF(id, v)
    \/ RegTick

RegSpec == RegInit /\ [][RegNext]_vars

----------------------------------------------------------------------------
(* single ticks on one instruction with chosen operands in t0 and t1 *)

\* largest number of ticks in a run
MaxTicks == 2

TickWords ==
    {<<98, 37811>>,   \* sll t2, t0, t1
       <<16482, 54195>>,   \* sra t2, t0, t1
       <<498, 37779>>,   \* slli t2, t0, 31
       <<98, 33715>>,   \* add t2, t0, t1
       <<128, 239>>,   \* jal ra, 8
       <<65503, 61679>>,   \* jal ra, -4
       <<66, 33511>>,   \* jalr t0, 4(t0)
       <<65475, 231>>,   \* jalr ra, -4(t1)
       <<98, 33891>>,   \* beq t0, t1, 8
       <<98, 37987>>,   \* bne t0, t1, 8
       <<98, 50275>>,   \* blt t0, t1, 8
       <<65122, 57059>>,   \* bge t0, t1, -4
       <<2, 32811>>,   \* outb t0
       <<2, 41859>>,   \* lw t2, 0(t0)
       <<2, 41731>>,   \* lw t1, 0(t0)
       <<98, 40995>>,   \* sw t1, 0(t0)
       <<0, 0>>,   \* end
       <<65535, 65535>>    \* 0xffffffff (no such opcode)
    }

\* the values of t0 and t1 when the tick starts
TickVals == {<<0, 0>>, <<0, 1>>, <<0, 8>>, <<0, 31>>, <<0, 32>>, <<0, 16384>>,
             <<32768, 0>>, <<65535, 65535>>}

\* the instruction w, then outb t1 and add t2, t0, t1
TickImage(w) == Image(0, 3, <<w, <<3, 43>>, <<98, 33715>> >>)

TickCpu(w, a, b) ==
    [Cpu_new(TickImage(w)) EXCEPT !.reg = reg_set(reg_set(@, 5, a), 6, b)]

\* branches on float registers, and instructions placed at the address 60
TickFloatBranches ==
    {<<16, 5207>>,    \* fblt f0, f1, 8
     <<16, 9303>>,    \* fbge f0, f1, 8
     <<0, 17495>>,    \* fbeqz f0, 8
     <<0, 29783>>     \* fbnez f0, 8
    }

TickFarWords ==
    TickFloatBranches
    \cup {<<98, 33891>>, <<98, 37987>>, <<98, 50275>>, <<65122, 57059>>,
          <<128, 239>>, <<66, 33511>>, <<98, 33715>>}

\* data_len words of data, then the instruction w, outb t1 and add t2, t0, t1
TickImageAt(data_len, w) ==
    Image(data_len, 3, [i \in 1..data_len |-> <<0, 0>>] \o <<w, <<3, 43>>, <<98, 33715>> >>)

CounterStates == {"StronglyUntaken", "WeaklyUntaken", "WeaklyTaken", "StronglyTaken"}

\* the registers t0 and t1 hold a and b, the counter 0 was trained to s
TickCpuAt(data_len, w, a, b, s) ==
    [Cpu_new(TickImageAt(data_len, w)) EXCEPT
        !.reg = reg_set(reg_set(@, 5, a), 6, b),
        !.branch_predictor[0] = s]

TickInit ==
    \/ \E w \in TickWords, a \in TickVals, b \in TickVals :
           InitCpu(TickCpu(w, a, b), {}, Usize(0)) /\ InitSim
    \/ \E w \in TickFloatBranches, s \in CounterStates :
           InitCpu(TickCpuAt(0, w, <<0, 1>>, <<0, 1>>, s), {}, Usize(0)) /\ InitSim
    \/ \E w \in TickFarWords, a \in {<<0, 0>>, <<0, 1>>}, s \in CounterStates :
           InitCpu(TickCpuAt(15, w, a, <<0, 1>>, s), {}, Usize(0)) /\ InitSim

\* Cpu::cycle_one_full called directly
Tick ==
    /\ mres.n < MaxTicks
    /\ TickResult(cycle_one_full(Cpu))

TickNext == Tick

TickSpec == TickInit /\ [][TickNext]_vars

----------------------------------------------------------------------------
(* comparisons of tags and conversions of tagged words *)

\* largest number of tag operations in a run
MaxTyOps == 2

TyFrame == UNCHANGED <<cpu_vars, build_vars, sim_vars, mspied>>

\* a.partial_cmp(&b)
TyCompare(a, b) ==
    /\ mres.n < MaxTyOps
    /\ mres' = [op |-> "partial_cmp", a |-> a, b |-> b, res |-> partial_cmp(a, b),
                n |-> mres.n + 1]
    /\ TyFrame

\* value.typed(a).as_i()
TyAsI(a, value) ==
    /\ mres.n < MaxTyOps
    /\ mres' = [op |-> "as_i", a |-> a, b |-> a, arg |-> value,
                res |-> as_i([ty |-> a, value |-> value]), n |-> mres.n + 1]
    /\ TyFrame

TyInit == \E img \in {ImgEnd, ImgAdd} : InitFrom(img, {}, Usize(0))

TyNext ==
    \/ \E a \in Ty, b \in Ty : TyCompare(a, b)
    \/ \E a \in Ty, v \in MemVals : TyAsI(a, v)

TySpec == TyInit /\ [][TyNext]_vars

----------------------------------------------------------------------------
(* single_cycle under options that watch registers and memory *)

\* the registers and addresses watched: none; ra, t0 (twice), a float
\* register and a word of the data; a0 and a word past the end of the RAM
WatchSets ==
    {NoWatchings,
     [reg |-> <<1, 5, 5>>, freg |-> <<2>>, memory |-> <<Usize(100)>>],
     [reg |-> <<10>>, freg |-> <<>>, memory |-> <<Usize(100), Usize(RAM_BYTE_SIZE \div 4)>>]}

WatchOpts ==
    {[mode |-> md, breakpoints |-> bps, watchings |-> w] :
        md \in {[k |-> "Run"], [k |-> "SkipUntil", pc |-> Usize(8)],
                [k |-> "RunStep", step |-> NoneV]},
        bps \in {{}, {Usize(4)}},
        w \in WatchSets}

WatchInit ==
    \E img \in {ImgAdd, ImgSpy, ImgFail}, k \in {{}, {"Write"}} : InitFrom(img, k, Usize(100))

\* no call is made once the memory has been read this many times
MaxWatchReads == 4

WatchNext ==
    \/ \E o \in WatchOpts : read_stat.stat_mem < MaxWatchReads /\ Call(o)
    \/ Iterate

WatchSpec == WatchInit /\ [][WatchNext]_vars

----------------------------------------------------------------------------
(* debug symbols provided to a fresh Simulator, then looked up *)

MaxSymOps == 2

\* the symbol tables provided: labels at some of 0, 8 and 16, in any order
SymTables ==
    {<<>>}
    \cup {<<[addr |-> a, label |-> "f"]>> : a \in {0, 8, 16}}
    \cup {<<[addr |-> ab[1], label |-> "f"], [addr |-> ab[2], label |-> "g"]>> :
             ab \in {x \in {0, 8, 16} \X {0, 8, 16} : x[1] # x[2]}}

SymAddrs == {0, 4, 8, 12, 16, 20}

DisassembleOptions ==
    [addr : {NoneV} \cup {[some |-> TRUE, val |-> U32(a)] : a \in SymAddrs},
     do_fold : BOOLEAN,
     window_size_half : {NoneV, [some |-> TRUE, val |-> 0]}]

SymFrame == UNCHANGED <<cpu_vars, build_vars, cycle, fatal_error, sim_pos, is_enter, opt,
                        step_left, ret, last_op, entry, had_failed, elapsed_clocks,
                        ret_watchings, mspied>>

\* Simulator::provide_dbg_symb(other)
ProvideDbgSymb(other) ==
    /\ mres.n < MaxSymOps
    /\ debug_symbol' = provide_dbg_symb(debug_symbol, other)
    /\ mres' = [op |-> "provide_dbg_symb", n |-> mres.n + 1]
    /\ SymFrame

\* debug_symbol().get_nearest_symbol_addr(addr)
GetNearest(addr) ==
    /\ mres.n < MaxSymOps
    /\ mres' = [op |-> "get_nearest_symbol_addr", addr |-> addr,
                r |-> get_nearest_symbol_addr(debug_symbol, addr), n |-> mres.n + 1]
    /\ UNCHANGED debug_symbol
    /\ SymFrame

\* Simulator::disassemble_near(o)
DisassembleNear(o) ==
    /\ mres.n < MaxSymOps
    /\ mres' = [op |-> "disassemble_near",
                addr |-> ToInt(IF o.addr.some THEN o.addr.val ELSE pc),
                r |-> disassemble_near(Cpu, debug_symbol, o), n |-> mres.n + 1]
    /\ UNCHANGED debug_symbol
    /\ SymFrame

SymInit == InitFrom(ImgAdd, {}, Usize(0))

SymNext ==
    \/ \E other \in SymTables : ProvideDbgSymb(other)
    \/ \E addr \in SymAddrs : GetNearest(addr)
    \/ \E o \in DisassembleOptions : DisassembleNear(o)

SymSpec == SymInit /\ [][SymNext]_vars

----------------------------------------------------------------------------
(* the branch predictor and the cache of a fresh Cpu called directly *)

MaxBpOps == 3

\* addresses of the counters 4 (twice) and 12
PredAddrs == {Usize(4), Usize(12), Usize(68)}

BpFrame == UNCHANGED <<pc, reg_inner, reg_inner_f, input, output, inner, ty, instr_mem_range,
                       spy, pipeline_state, b_stat, c_stat, read_stat, build_vars, sim_vars,
                       mspied>>

\* branch_predictor.predict(addr)
Predict(addr) ==
    /\ mres.n < MaxBpOps
    /\ mres' = [op |-> "predict", addr |-> addr, res |-> predict(branch_predictor, addr),
                n |-> mres.n + 1]
    /\ UNCHANGED <<branch_predictor, cache>>
    /\ BpFrame

\* branch_predictor.update_state(addr, result)
UpdateState(addr, result) ==
    /\ mres.n < MaxBpOps
    /\ branch_predictor' = update_state(branch_predictor, addr, result)
    /\ mres' = [op |-> "update_state", addr |-> addr, res |-> result, n |-> mres.n + 1]
    /\ UNCHANGED cache
    /\ BpFrame

\* addresses of the lines 0 (with the tags 0, 1 and 2), 1 and 16383
CacheAddrs == {Usize(0), Usize(3), Usize(4), Usize(65532), Usize(65536), Usize(65539),
               Usize(2147483644),
               Usize(131072)}

\* cache.access_cache(addr)
AccessCache(addr) ==
    /\ mres.n < MaxBpOps
    /\ cache' = access_cache(cache, addr).cache
    /\ mres' = [op |-> "access_cache", addr |-> addr, res |-> access_cache(cache, addr).hit,
                n |-> mres.n + 1]
    /\ UNCHANGED branch_predictor
    /\ BpFrame

BpInit == InitFrom(ImgEnd, {}, Usize(0))

BpNext ==
    \/ \E addr \in PredAddrs : Predict(addr)
    \/ \E addr \in PredAddrs, result \in BOOLEAN : UpdateState(addr, result)
    \/ \E addr \in CacheAddrs : AccessCache(addr)

BpSpec == BpInit /\ [][BpNext]_vars

----------------------------------------------------------------------------
(* the decoder called directly on chosen words *)

MaxDecOps == 1

\* the word with the given fields of the v1 layout
Word(opcode, rd, funct3, rs1, rs2, funct7) ==
    <<funct7 * 512 + rs2 * 16 + rs1 \div 2,
      (rs1 % 2) * 32768 + funct3 * 4096 + rd * 128 + opcode>>

\* the opcodes of decode_from, and two it does not know
DecOpcodes == {51, 19, 3, 103, 35, 99, 111, 11, 43, 15, 83, 87, 7, 39, 0, 127}

DecFunct7 == {0, 32, 81}

\* words of every opcode, funct3 and some funct7 on t2, t0, t1; the words
\* 0 and 0x7d008113 of test_decode; a word with all bits set
DecWords ==
    { Word(o, 7, f3, 5, 6, f7) : o \in DecOpcodes, f3 \in 0..7, f7 \in DecFunct7 }
    \cup {<<0, 0>>, <<32000, 33043>>, <<65535, 65535>>}

\* DecodedInstr::decode_from(bin)
Decode(bin) ==
    /\ mres.n < MaxDecOps
    /\ mres' = [op |-> "decode", bin |-> bin, res |-> decode_from(bin), n |-> mres.n + 1]
    /\ UNCHANGED <<cpu_vars, build_vars, sim_vars, mspied>>

DecInit == InitFrom(ImgEnd, {}, Usize(0))

DecNext == \E bin \in DecWords : Decode(bin)

DecSpec == DecInit /\ [][DecNext]_vars

----------------------------------------------------------------------------
(* instr.rs: the identifiers of the instructions, first dialect *)

\* the variants of the instruction enums, in the order of their declaration
InstrEnums ==
    [R  |-> <<"Add", "Sub", "Xor", "Or", "And", "Sll", "Sra", "Slt">>,
     I  |-> <<"Addi", "Xori", "Ori", "Andi", "Slli", "Slti", "Lw", "Jalr">>,
     S  |-> <<"Sw">>,
     B  |-> <<"Beq", "Bne", "Blt", "Bge">>,
     P  |-> <<>>,
     J  |-> <<"Jal">>,
     FE |-> <<"Fadd", "Fsub", "Fmul", "Fdiv", "Fsgnj", "Fsgnjn", "Fsgnjx">>,
     FG |-> <<>>,
     FH |-> <<"Fsqrt", "Fhalf", "Ffloor">>,
     FK |-> <<"Flt">>,
     FX |-> <<"Fitof">>,
     FY |-> <<"Fiszero", "Fispos", "Fisneg", "Fftoi">>,
     FW |-> <<"Fblt", "Fbge">>,
     FV |-> <<"Fbeqz", "Fbnez">>]

\* Display of the variants of the instruction enums
EnumDisplay ==
    [Add |-> "add", Sub |-> "sub", Xor |-> "xor", Or |-> "or", And |-> "and",
     Sll |-> "sll", Sra |-> "sra", Slt |-> "slt",
     Addi |-> "addi", Xori |-> "xori", Ori |-> "ori", Andi |-> "andi", Slli |-> "slli",
     Slti |-> "slti", Lw |-> "lw", Jalr |-> "jalr",
     Sw |-> "sw", Beq |-> "beq", Bne |-> "bne", Blt |-> "blt", Bge |-> "bge", Jal |-> "jal",
     Fadd |-> "fadd", Fsub |-> "fsub", Fmul |-> "fmul", Fdiv |-> "fdiv", Fsgnj |-> "fsgnj",
     Fsgnjn |-> "fsgnjn", Fsgnjx |-> "fsgnjx",
     Fsqrt |-> "fsqrt", Fhalf |-> "fhalf", Ffloor |-> "ffloor", Flt |-> "flt",
     Fitof |-> "fitof", Fiszero |-> "fiszero", Fispos |-> "fispos", Fisneg |-> "fisneg",
     Fftoi |-> "fftoi", Fblt |-> "fblt", Fbge |-> "fbge", Fbeqz |-> "fbeqz",
     Fbnez |-> "fbnez"]

\* the enum of the category upper, for the categories that have one
UpperEnums ==
    [u \in 0..14 |->
        CASE u = 0 -> "R" [] u = 1 -> "I" [] u = 2 -> "S" [] u = 3 -> "B" [] u = 4 -> "P"
          [] u = 5 -> "J" [] u = 6 -> "IO" [] u = 7 -> "FE" [] u = 8 -> "FG" [] u = 9 -> "FH"
          [] u = 10 -> "FK" [] u = 11 -> "FX" [] u = 12 -> "FY" [] u = 13 -> "FW"
          [] u = 14 -> "FV"]

\* mem::variant_count
variant_count(e) == IF e = "IO" THEN 3 ELSE Len(InstrEnums[e])

\* `instr as u8`, the discriminant of the variant v of the enum e
discriminant(e, v) == CHOOSE i \in 0..(Len(InstrEnums[e]) - 1) : InstrEnums[e][i + 1] = v

\* InstrId::MAX
InstrId_MAX == (15 * 8) + 3

\* variant: the category shifted by two bits only
instr_id_shift2(upper, lower) == ((upper * 4) + lower) % 256

\* the local fn id of Instr::id: (upper << 3) + lower on u8
instr_id(upper, lower) == (((upper * 8) % 256) + lower) % 256

\* Instr::id
Instr_id(d) ==
    CASE d.tag = "IO" ->
           instr_id(6, CASE d.instr = "Outb" -> 0 [] d.instr = "Inw" -> 1 [] d.instr = "Finw" -> 2)
      [] d.tag = "Flw" -> instr_id(15, 0)
      [] d.tag = "Fsw" -> instr_id(15, 1)
      [] d.tag = "Misc" -> instr_id(15, 2)
      [] OTHER ->
           instr_id(CHOOSE u \in 0..14 : UpperEnums[u] = d.tag, discriminant(d.tag, d.instr))

\* InstrId::try_from(value): Ok or Err
InstrId_try_from(value) ==
    IF value \div 8 <= 14 THEN value % 8 < variant_count(UpperEnums[value \div 8])
    ELSE IF value \div 8 = 15 THEN value % 8 < 3
    ELSE FALSE

\* Display of InstrId; the transmute of a number that is no discriminant of
\* the enum is undefined
InstrId_Display(id) ==
    CASE id \div 8 = 6 ->
           (CASE id % 8 = 0 -> {"outb"} [] id % 8 = 1 -> {"inw"} [] id % 8 = 2 -> {"finw"}
              [] OTHER -> {"unreachable"})
      [] id \div 8 = 15 ->
           (CASE id % 8 = 0 -> {"flw"} [] id % 8 = 1 -> {"fsw"} [] id % 8 = 2 -> {"end"}
              [] OTHER -> {"unreachable"})
      [] id \div 8 > 15 -> {"unreachable"}
      [] OTHER ->
           IF id % 8 < variant_count(UpperEnums[id \div 8])
           THEN {EnumDisplay[InstrEnums[UpperEnums[id \div 8]][(id % 8) + 1]]}
           ELSE {"unreachable"} \cup {EnumDisplay[v] : v \in DOMAIN EnumDisplay}

\* InstrStat::encounter_instr on the array instr_executed of length
\* InstrId::MAX: FALSE when the index is out of the array
encounter_instr(d) == Instr_id(d) < InstrId_MAX

----------------------------------------------------------------------------
(* Instr::id, InstrId::try_from and Display called directly *)

\* number of calls in a run of IdSpec
MaxIdOps == 1

\* every instruction variant of the first dialect
IdInstrs ==
    UNION {{[tag |-> e, instr |-> InstrEnums[e][i]] : i \in 1..Len(InstrEnums[e])} :
              e \in DOMAIN InstrEnums}
    \cup {[tag |-> "IO", instr |-> v] : v \in {"Outb", "Inw", "Finw"}}
    \cup {[tag |-> "Flw"], [tag |-> "Fsw"], [tag |-> "Misc", instr |-> "End"]}

IdFrame == UNCHANGED <<cpu_vars, build_vars, sim_vars, mspied>>

\* format!("{}", instr.id()) and the index into the statistics
InstrIdOf(d) ==
    /\ mres.n < MaxIdOps
    /\ \E s \in InstrId_Display(Instr_id(d)) :
          mres' = [op |-> "id", d |-> d, id |-> Instr_id(d), str |-> s,
                   in_stat |-> encounter_instr(d), n |-> mres.n + 1]
    /\ IdFrame

\* InstrId::try_from(value), and Display of the identifier when it is Ok
TryFrom(value) ==
    /\ mres.n < MaxIdOps
    /\ IF InstrId_try_from(value)
       THEN \E s \in InstrId_Display(value) :
               mres' = [op |-> "try_from", value |-> value, ok |-> TRUE, str |-> s,
                        n |-> mres.n + 1]
       ELSE mres' = [op |-> "try_from", value |-> value, ok |-> FALSE, str |-> "",
                     n |-> mres.n + 1]
    /\ IdFrame

\* the identifiers do not depend on the build
IdInit == InitFrom(ImgEnd, {}, Usize(0)) /\ typed_memory /\ overflow_checks

IdNext ==
    \/ \E d \in IdInstrs : InstrIdOf(d)
    \/ \E value \in 0..255 : TryFrom(value)

IdSpec == IdInit /\ [][IdNext]_vars

----------------------------------------------------------------------------
(* properties of the Simulator facade, checked under Spec *)

Returned == sim_pos = "idle" /\ last_op = "single_cycle"

RetIs(k) == ret.kind = "Break" /\ ret.reason.k = k

RetIsNext(k) == ret'.kind = "Break" /\ ret'.reason.k = k

\* the step is the entry of a single_cycle call
CallStep == sim_pos = "idle" /\ last_op' = "single_cycle" /\ spy' = spy

\* the step runs one tick of the CPU
TickStep == sim_pos = "running" /\ entry'.ticks = entry.ticks + 1

\* C1: a single_cycle call returns Break(CannotRestart) if and only if an
\* earlier call returned Break(Failed); such a call changes neither the PC,
\* the registers, the memory, the cycle counter nor the latched error; a
\* call that runs its loop never returns CannotRestart.
C1_CannotRestart ==
    [][ /\ CallStep =>
             /\ (sim_pos' = "idle" /\ RetIsNext("CannotRestart")) <=> had_failed
             /\ had_failed => UNCHANGED <<cpu_vars, cycle, fatal_error>>
        /\ sim_pos = "running" => ~RetIsNext("CannotRestart") ]_vars

C1_Witness == Returned /\ RetIs("CannotRestart") /\ entry.failed

\* C2: before every instruction of a call but the first, a breakpoint on the
\* current PC address A ends the call with BreakPoint(A) (Reached(A) in
\* SkipUntil mode with target A), the PC still A, nothing executed and the
\* cycle counter as it was; the first instruction of a call is ticked
\* whatever the breakpoints are, so BreakPoint is never returned before a tick.
C2_Breakpoint ==
    [][ sim_pos = "running" =>
          LET A == as_usize(pc)
          IN  /\ (entry.ticks > 0 /\ A \in opt.breakpoints) =>
                    /\ sim_pos' = "idle"
                    /\ IF opt.mode.k = "SkipUntil" /\ opt.mode.pc = A
                       THEN ret' = Break([k |-> "Reached", addr |-> A])
                       ELSE ret' = Break([k |-> "BreakPoint", addr |-> A])
                    /\ UNCHANGED <<cpu_vars, cycle>>
                    /\ entry'.ticks = entry.ticks
              /\ entry.ticks = 0 => entry'.ticks = 1
              /\ RetIsNext("BreakPoint") =>
                    /\ entry.ticks > 0
                    /\ ret'.reason.addr = A
                    /\ A \in opt.breakpoints ]_vars

C2_Witness ==
    /\ Returned
    /\ RetIs("BreakPoint")
    /\ as_usize(entry.pc) \in opt.breakpoints
    /\ as_usize(pc) = ret.reason.addr
    /\ cycle > entry.cycle

\* C3: a RunStep(n) call (n = 1 when the count is omitted) never ticks more
\* than n times; it returns StepEnded exactly after n successful ticks, and
\* returns anything else only on Exit, an error, a spy hit or a breakpoint.
C3_RunStep ==
    (last_op = "single_cycle" /\ opt.mode.k = "RunStep" /\ sim_pos # "aborted") =>
        LET n == IF opt.mode.step.some THEN opt.mode.step.val ELSE 1
        IN  /\ entry.ticks <= n
            /\ cycle - entry.cycle <= n
            /\ sim_pos = "running" => entry.ticks < n
            /\ (sim_pos = "idle" /\ RetIs("StepEnded")) =>
                  /\ cycle - entry.cycle = n
                  /\ entry.ticks = n
            /\ (sim_pos = "idle" /\ ~RetIs("StepEnded")) =>
                  \/ ret.kind = "Exit"
                  \/ ret.reason.k \in {"Failed", "CannotRestart", "Spy", "BreakPoint"}

C3_Witness ==
    /\ Returned
    /\ opt.mode.k = "RunStep"
    /\ ~opt.mode.step.some
    /\ RetIs("StepEnded")
    /\ cycle = entry.cycle + 1

\* C4: a SkipUntil{pc: T} call returns Reached(T) exactly when the PC equals
\* T before its second or a later instruction, that instruction not being
\* executed; with the PC equal to T at the start, the first instruction is
\* ticked anyway.  No other mode returns Reached.
C4_SkipUntil ==
    [][ sim_pos = "running" =>
          IF opt.mode.k = "SkipUntil"
          THEN LET T == opt.mode.pc
               IN  /\ (sim_pos' = "idle" /\ RetIsNext("Reached")) <=>
                          (entry.ticks > 0 /\ as_usize(pc) = T)
                   /\ (entry.ticks > 0 /\ as_usize(pc) = T) =>
                          /\ ret'.reason.addr = T
                          /\ UNCHANGED <<cpu_vars, cycle>>
                          /\ entry'.ticks = entry.ticks
                   /\ entry.ticks = 0 => entry'.ticks = 1
          ELSE ~RetIsNext("Reached") ]_vars

C4_Witness ==
    /\ Returned
    /\ RetIs("Reached")
    /\ as_usize(entry.pc) = opt.mode.pc
    /\ as_usize(pc) = opt.mode.pc
    /\ cycle > entry.cycle

\* C5: a tick whose fetched word decodes to End writes no register and no
\* memory word, and makes single_cycle return Exit with the cycle counter
\* incremented, in every mode; on the image data_len = 0, text_len = 1,
\* text = [0] the first call that ticks returns Exit with cycle = 1.
C5_End ==
    /\ [][ (TickStep /\ get_from_pc(Memory, pc).res = "Ok"
                     /\ decode_from(get_from_pc(Memory, pc).val).tag = "Misc") =>
              /\ sim_pos' = "idle"
              /\ ret' = [kind |-> "Exit"]
              /\ cycle' = cycle + 1
              /\ UNCHANGED <<reg_inner, reg_inner_f, inner, ty>> ]_vars
    /\ []( (/\ instr_mem_range = [start |-> 0, end |-> 4]
            /\ Returned
            /\ entry.cycle = 0
            /\ ~entry.failed
            /\ entry.ticks > 0) => (ret.kind = "Exit" /\ cycle = 1) )

C5_Witness ==
    /\ Returned
    /\ instr_mem_range = [start |-> 0, end |-> 4]
    /\ ret.kind = "Exit"
    /\ cycle = 1

\* the word address a load or store instruction d computes
EffAddr(d) == as_usize(wrapping_add(reg_inner[d.rs1], d.imm))

\* C6: when single_cycle returns Break(Spy) the instruction has committed:
\* the PC has advanced, the cycle counter is incremented, a store has put
\* its value in the memory word and a load has put the word in rd; a write
\* result carries the value the word held before the store and the value
\* stored (0xCCCCCCCC for an untouched word).  A store to a word with a write
\* spy, or a load of a word with a read spy, that succeeds returns Break(Spy).
C6_Spy ==
    [][ (TickStep /\ get_from_pc(Memory, pc).res = "Ok") =>
          LET d  == decode_from(get_from_pc(Memory, pc).val)
              st == d.tag \in {"S", "Fsw"}
              ld == d.tag = "Flw" \/ (d.tag = "I" /\ d.instr = "Lw")
          IN  /\ (RetIsNext("Spy") /\ sim_pos' = "idle") =>
                    LET sp == ret'.reason.spy
                    IN  /\ pc' = wrapping_add(pc, <<0, 4>>)
                        /\ cycle' = cycle + 1
                        /\ sp.kind = "Write" =>
                              /\ st
                              /\ sp.target = EffAddr(d)
                              /\ EffAddr(d) \in spy.on_write
                              /\ sp.before.value = get_raw_addr(Memory, 4 * UToInt(EffAddr(d)))
                              /\ sp.after.value =
                                    (IF d.tag = "S" THEN reg_inner[d.rs2] ELSE reg_inner_f[d.rs2])
                              /\ get_raw_addr(Memory', 4 * UToInt(EffAddr(d))) = sp.after.value
                              /\ (4 * UToInt(EffAddr(d)) \notin DOMAIN inner) =>
                                    sp.before.value = <<52428, 52428>>
                        /\ sp.kind = "Read" =>
                              /\ ld
                              /\ sp.target = EffAddr(d)
                              /\ EffAddr(d) \in spy.on_read
                              /\ (d.tag = "I" /\ d.rd # 0) =>
                                    reg_inner'[d.rd] = get_raw_addr(Memory, 4 * UToInt(EffAddr(d)))
                              /\ (d.tag = "Flw" /\ d.rd # 0) =>
                                    reg_inner_f'[d.rd] = get_raw_addr(Memory, 4 * UToInt(EffAddr(d)))
              /\ (st /\ EffAddr(d) \in spy.on_write /\ cycle' = cycle + 1) =>
                    (sim_pos' = "idle" /\ RetIsNext("Spy") /\ ret'.reason.spy.kind = "Write")
              /\ (ld /\ EffAddr(d) \in spy.on_read /\ cycle' = cycle + 1) =>
                    (sim_pos' = "idle" /\ RetIsNext("Spy") /\ ret'.reason.spy.kind = "Read") ]_vars

C6_Witness ==
    /\ Returned
    /\ RetIs("Spy")
    /\ ret.reason.spy.kind = "Write"
    /\ ret.reason.spy.before.value = <<52428, 52428>>
    /\ ret.reason.spy.after.value = <<57005, 48879>>
    /\ get_raw_addr(Memory, 4 * UToInt(ret.reason.spy.target)) = <<57005, 48879>>

\* C10: on the image addi t0,zero,7; addi t1,zero,5; add t2,t0,t1;
\* sw t2,0(hp); end (data_len = 0) no call fails before the End, a Run call
\* from the initial state returns Exit, and at Exit five ticks have run,
\* t2 holds 12 and the word at the initial hp (word 5) holds 12.
C10_AddProgram ==
    instr_mem_range = [start |-> 0, end |-> 20] =>
        /\ cycle < 5 => ~had_failed
        /\ (Returned /\ ret.kind = "Exit") =>
              /\ cycle = 5
              /\ reg_inner[7] = <<0, 12>>
              /\ reg_inner[5] = <<0, 7>>
              /\ reg_inner[6] = <<0, 5>>
              /\ get_raw_addr(Memory, 20) = <<0, 12>>
        /\ (Returned /\ opt.mode.k = "Run" /\ opt.breakpoints = {}
                     /\ ~entry.failed /\ entry.cycle < 5) => ret.kind = "Exit"

C10_Witness ==
    /\ Returned
    /\ instr_mem_range = [start |-> 0, end |-> 20]
    /\ opt.mode.k = "Run"
    /\ entry.cycle = 0
    /\ ret.kind = "Exit"
    /\ get_raw_addr(Memory, 20) = <<0, 12>>

----------------------------------------------------------------------------
(* properties of Memory, checked under MemSpec *)

\* 4a, computed without wrap-around, lies in the RAM and outside the
\* instruction region
InRamData(a) ==
    /\ ULtInt(a, RAM_BYTE_SIZE \div 4)
    /\ ~(instr_mem_range.start <= 4 * UToInt(a) /\ 4 * UToInt(a) < instr_mem_range.end)

\* the step is one Memory operation
MemStep(op) == mres'.n = mres.n + 1 /\ mres'.op = op

\* C7: for a word address a with 4a inside the RAM and outside the
\* instruction region, set(a, v) succeeds and changes no byte of another
\* word, and a get_i(a) or get(a) that follows it returns v.
C7_SetGet ==
    [][ /\ (MemStep("set") /\ InRamData(mres'.addr)) =>
              /\ mres'.res = "Ok"
              /\ get_raw_addr(Memory', 4 * UToInt(mres'.addr)) = mres'.arg
              /\ \A i \in (DOMAIN inner) \cup (DOMAIN inner') :
                    (i \div 4 # UToInt(mres'.addr)) =>
                        /\ i \in DOMAIN inner
                        /\ i \in DOMAIN inner'
                        /\ inner'[i] = inner[i]
        /\ (/\ MemStep("get_i") \/ MemStep("get")
            /\ mres.op = "set"
            /\ mres'.addr = mres.addr
            /\ InRamData(mres.addr)) =>
              /\ mres'.res = "Ok"
              /\ mres'.val.value = mres.arg
              /\ inner' = inner ]_vars

C7_Witness ==
    /\ mres.op = "get_i"
    /\ mres.n = 2
    /\ mres.addr = Usize((RAM_BYTE_SIZE \div 4) - 1)
    /\ mres.res = "Ok"
    /\ mres.val.value = <<57005, 48879>>

\* the addresses C8 names: 4a, computed without wrap-around, is at or past
\* the end of the RAM, or inside the instruction region
MathOutOfBounds(a) == ~InRamData(a)

\* C8: each of get, get_i, get_f, set and set_f fails with OutOfBounds,
\* leaving the memory unchanged, exactly when 4a >= 1,000,000 or 4a lies in
\* [text_begin, text_end); get_from_pc succeeds exactly when the PC lies in
\* that range and fails with PcOutOfBounds otherwise; no operation changes
\* a byte of the instruction region.
C8_Bounds ==
    /\ [](mres.op \in {"get", "get_i", "get_f", "set", "set_f"} =>
            ((mres.res = "Err" /\ mres.err.kind = "OutOfBounds") <=> MathOutOfBounds(mres.addr)))
    /\ [](mres.op = "get_from_pc" =>
            /\ mres.res = "Ok" <=>
                  (instr_mem_range.start <= ToInt(mres.addr) /\ ToInt(mres.addr) < instr_mem_range.end)
            /\ mres.res # "Ok" => (mres.res = "Err" /\ mres.err.kind = "PcOutOfBounds"))
    /\ [][ /\ (mres'.n = mres.n + 1 /\ mres'.res = "Err") => UNCHANGED <<inner, ty, mspied>>
           /\ \A i \in instr_mem_range.start .. (instr_mem_range.end - 1) :
                 ByteAt(Memory', i) = ByteAt(Memory, i) ]_vars

\* C9 as stated: a data load at word address text_begin/4 and one at
\* text_end/4 both fail with OutOfBounds, and a fetch at PC = text_end fails
\* with PcOutOfBounds.
C9_Original ==
    /\ (mres.op = "get_i" /\ UFits(mres.addr)
          /\ 4 * UToInt(mres.addr) \in {instr_mem_range.start, instr_mem_range.end}) =>
            (mres.res = "Err" /\ mres.err.kind = "OutOfBounds")
    /\ (mres.op = "get_from_pc" /\ ToInt(mres.addr) = instr_mem_range.end) =>
            (mres.res = "Err" /\ mres.err.kind = "PcOutOfBounds")

\* C9: a data load at word address text_begin/4 and one at the last word of
\* the region, text_end/4 - 1, fail with OutOfBounds; a data load at
\* text_end/4, the first word after the region, is not rejected by the
\* bounds check; a fetch at PC = text_end fails with PcOutOfBounds.
C9_Boundary ==
    /\ (mres.op \in {"get", "get_i", "get_f"} /\ UFits(mres.addr)
          /\ 4 * UToInt(mres.addr) \in {instr_mem_range.start, instr_mem_range.end - 4}) =>
            (mres.res = "Err" /\ mres.err.kind = "OutOfBounds")
    /\ (mres.op \in {"get", "get_i", "get_f"} /\ UFits(mres.addr)
          /\ 4 * UToInt(mres.addr) = instr_mem_range.end) =>
            ~(mres.res = "Err" /\ mres.err.kind = "OutOfBounds")
    /\ (mres.op = "get_i" /\ mres.n = 1 /\ UFits(mres.addr)
          /\ 4 * UToInt(mres.addr) = instr_mem_range.end) =>
            (mres.res = "Ok" /\ mres.val.value = <<52428, 52428>>)
    /\ (mres.op = "get_from_pc" /\ ToInt(mres.addr) = instr_mem_range.end) =>
            (mres.res = "Err" /\ mres.err.kind = "PcOutOfBounds")

C9_Witness ==
    /\ mres.op = "get_i"
    /\ UFits(mres.addr)
    /\ 4 * UToInt(mres.addr) = instr_mem_range.end
    /\ mres.res = "Ok"

----------------------------------------------------------------------------
(* properties of RegFile, checked under RegSpec *)

\* C11: register 0 of both files reads 0 after any sequence of register
\* writes and ticks, a write to index 0 changing nothing; for an index i
\* other than 0, set(i, v) (set_f(i, v)) followed by get(i) (get_f(i))
\* returns v, and no other register of either file changes.
C11_RegFile ==
    /\ [](reg_get(reg_inner, 0) = <<0, 0>> /\ reg_get(reg_inner_f, 0) = <<0, 0>>)
    /\ [][ /\ (mres'.n = mres.n + 1 /\ mres'.op = "reg_set") =>
                 /\ mres'.id # 0 => reg_get(reg_inner', mres'.id) = mres'.arg
                 /\ \A j \in RegIds \ {mres'.id} : reg_inner'[j] = reg_inner[j]
                 /\ reg_inner_f' = reg_inner_f
           /\ (mres'.n = mres.n + 1 /\ mres'.op = "reg_set_f") =>
                 /\ mres'.id # 0 => reg_get(reg_inner_f', mres'.id) = mres'.arg
                 /\ \A j \in RegIds \ {mres'.id} : reg_inner_f'[j] = reg_inner_f[j]
                 /\ reg_inner' = reg_inner ]_vars

C11_Witness ==
    /\ mres.op = "reg_set"
    /\ mres.n = 2
    /\ mres.id = 0
    /\ mres.arg = <<65535, 65535>>
    /\ reg_inner[5] = <<0, 7>>
    /\ reg_inner[0] = <<0, 0>>

----------------------------------------------------------------------------
(* properties of the typed memory, checked under MemSpec *)

\* the tag a read operation requests
Requested(op) ==
    CASE op = "get" -> "Unknown"
      [] op = "get_i" -> "I32OrUsize"
      [] op = "get_f" -> "F32"

\* tag b is strictly more precise than tag a
Refines(b, a) ==
    \/ a = "Unknown" /\ b # "Unknown"
    \/ a = "I32OrUsize" /\ b \in {"I32", "Usize"}

\* the step is the Memory operation op on a data word, with the tag vector
TypedStep(op) == MemStep(op) /\ typed_memory /\ InRamData(mres'.addr)

\* the step is the Memory operation op on the data word of the operation before
TypedStepAfter(op, before) ==
    /\ TypedStep(op)
    /\ mres.op = before
    /\ mres.res = "Ok"
    /\ mres.addr = mres'.addr

IsViolateTransmutation(r, t, a) ==
    /\ r.res = "Err"
    /\ r.err = ViolateTransmutation(t, a)

\* C18: with the tag vector, a read of a data word with stored tag t and
\* requested tag r succeeds with tag t when r is t or t refines r, succeeds
\* with tag r and stores r when r refines t, and otherwise fails with
\* ViolateTransmutation{expected: t, attempt: r}, tag and word unchanged; so
\* a get_i that follows a get_f of the same word fails, and a get_f that
\* follows a get_i fails.
C18_Unify ==
    [][ /\ \A op \in {"get", "get_i", "get_f"} : TypedStep(op) =>
              LET a == UToInt(mres'.addr)
                  t == TyAt(Memory, a)
                  r == Requested(op)
              IN  /\ inner' = inner
                  /\ IF r = t \/ Refines(t, r)
                     THEN /\ mres'.res = "Ok"
                          /\ op # "get_f" => mres'.val.ty = t
                          /\ ty' = ty
                     ELSE IF Refines(r, t)
                     THEN /\ mres'.res = "Ok"
                          /\ op # "get_f" => mres'.val.ty = r
                          /\ TyAt(Memory', a) = r
                          /\ \A b \in DOMAIN ty : b # a => TyAt(Memory', b) = ty[b]
                     ELSE /\ IsViolateTransmutation(mres', t, r)
                          /\ ty' = ty
        /\ TypedStepAfter("get_i", "get_f") =>
              IsViolateTransmutation(mres', "F32", "I32OrUsize")
        /\ TypedStepAfter("get_f", "get_i") =>
              IsViolateTransmutation(mres', "I32OrUsize", "F32") ]_vars

\* a word never written, read as float and then refused as integer
C18_Witness ==
    /\ typed_memory
    /\ mres.op = "get_i"
    /\ mres.n = 2
    /\ InRamData(mres.addr)
    /\ 4 * UToInt(mres.addr) \notin DOMAIN inner
    /\ IsViolateTransmutation(mres, "F32", "I32OrUsize")
    /\ TyAt(Memory, UToInt(mres.addr)) = "F32"

\* C19: with the tag vector, set on a data word succeeds whatever the tag and
\* leaves it I32OrUsize, set_f leaves it F32; a get_i after set succeeds and
\* a get_f after set fails with ViolateTransmutation, and the reverse after
\* set_f; every stored tag is one of Unknown, I32OrUsize, F32.
C19_StoreTag ==
    /\ [](typed_memory => \A a \in DOMAIN ty : ty[a] \in {"Unknown", "I32OrUsize", "F32"})
    /\ [][ /\ TypedStep("set") =>
                 /\ mres'.res = "Ok"
                 /\ TyAt(Memory', UToInt(mres'.addr)) = "I32OrUsize"
           /\ TypedStep("set_f") =>
                 /\ mres'.res = "Ok"
                 /\ TyAt(Memory', UToInt(mres'.addr)) = "F32"
           /\ TypedStepAfter("get_i", "set") => mres'.res = "Ok"
           /\ TypedStepAfter("get_f", "set") =>
                 IsViolateTransmutation(mres', "I32OrUsize", "F32")
           /\ TypedStepAfter("get_f", "set_f") => mres'.res = "Ok"
           /\ TypedStepAfter("get_i", "set_f") =>
                 IsViolateTransmutation(mres', "F32", "I32OrUsize") ]_vars

\* a float store over an integer word, the tag replaced
C19_Witness ==
    /\ typed_memory
    /\ mres.op = "set_f"
    /\ mres.n = 2
    /\ mres.res = "Ok"
    /\ InRamData(mres.addr)
    /\ get_raw_addr(Memory, 4 * UToInt(mres.addr)) = <<16256, 0>>
    /\ TyAt(Memory, UToInt(mres.addr)) = "F32"

----------------------------------------------------------------------------
(* properties of the tag order, checked under TySpec *)

\* a <= b in the order of partial_cmp
TyLe(a, b) == partial_cmp(a, b) \in {"Less", "Equal"}

\* the laws of a partial order, and Unknown and F32 placed as stated
TyOrderLaws ==
    /\ \A a \in Ty : TyLe(a, a)
    /\ \A a \in Ty, b \in Ty : (TyLe(a, b) /\ TyLe(b, a)) => a = b
    /\ \A a \in Ty, b \in Ty, c \in Ty : (TyLe(a, b) /\ TyLe(b, c)) => TyLe(a, c)
    /\ \A a \in Ty, b \in Ty : (partial_cmp(a, b) = "Less") <=> (partial_cmp(b, a) = "Greater")

\* the comparison the state records
Compared(a, b) == mres.op = "partial_cmp" /\ mres.a = a /\ mres.b = b

\* the parts of the statement that do not place I32OrUsize against I32, Usize
TyOrderCommon ==
    /\ TyOrderLaws
    /\ \A t \in Ty \ {"Unknown"} :
          /\ Compared("Unknown", t) => mres.res = "Less"
          /\ Compared(t, "Unknown") => mres.res = "Greater"
    /\ \A t \in {"I32", "Usize", "I32OrUsize"} :
          /\ Compared("F32", t) => mres.res = "None"
          /\ Compared(t, "F32") => mres.res = "None"
    /\ \A t \in Ty : Compared(t, t) => mres.res = "Equal"

\* C20 as stated: Unknown below every other tag, I32 <= I32OrUsize and
\* Usize <= I32OrUsize with I32OrUsize their least upper bound, F32
\* incomparable with I32, Usize and I32OrUsize, the order a partial order.
C20_Original ==
    /\ TyOrderCommon
    /\ \A t \in {"I32", "Usize"} :
          /\ Compared(t, "I32OrUsize") => mres.res \in {"Less", "Equal"}
          /\ Compared("I32OrUsize", t) => mres.res \in {"Greater", "Equal"}
    /\ \A x \in Ty : (TyLe("I32", x) /\ TyLe("Usize", x)) => TyLe("I32OrUsize", x)

\* C20: in the tag order used for unification Unknown is below every other
\* tag, I32OrUsize is the greatest lower bound of I32 and Usize (I32OrUsize
\* <= I32 and I32OrUsize <= Usize, I32 and Usize incomparable), F32 is
\* incomparable with I32, Usize and I32OrUsize, and the order is reflexive,
\* antisymmetric and transitive; as_i succeeds exactly on the tags at or
\* above I32OrUsize, which are I32, Usize and I32OrUsize.
C20_Meet ==
    /\ TyOrderCommon
    /\ \A t \in {"I32", "Usize"} :
          /\ Compared(t, "I32OrUsize") => mres.res = "Greater"
          /\ Compared("I32OrUsize", t) => mres.res = "Less"
    /\ Compared("I32", "Usize") \/ Compared("Usize", "I32") => mres.res = "None"
    /\ \A x \in Ty : (TyLe(x, "I32") /\ TyLe(x, "Usize")) => TyLe(x, "I32OrUsize")
    /\ mres.op = "as_i" =>
          IF mres.a \in {"I32", "Usize", "I32OrUsize"}
          THEN mres.res = [some |-> TRUE, value |-> mres.arg]
          ELSE mres.res = [some |-> FALSE]

\* I32 compared with I32OrUsize, found the greater
C20_Witness ==
    /\ Compared("I32", "I32OrUsize")
    /\ mres.res = "Greater"
    /\ mres.n = 2

----------------------------------------------------------------------------
(* properties of one tick, checked under TickSpec *)

\* the PC is inside the instruction region
Fetchable == pc[1] = 0 /\ instr_mem_range.start <= pc[2] /\ pc[2] < instr_mem_range.end

\* the instruction at the PC
AtPc == IF Fetchable THEN decode_from(get_raw_addr(Memory, pc[2])) ELSE [tag |-> "none"]

\* the step is one tick
OneTick == mres'.n = mres.n + 1 /\ mres'.op = "tick"

\* the step is one tick that executes the instruction instr
TickOf(instr) == OneTick /\ AtPc.tag \in {"R", "I", "B", "J", "IO"} /\ AtPc.instr = instr

\* the word as a signed number
Signed(w) == IF w[1] >= 32768 THEN (w[1] - H16) * H16 + w[2] ELSE w[1] * H16 + w[2]

\* the low 8 bits of a word
LowByte(w) == w[2] % 256

\* C12: a tick that executes outb appends one byte, the low 8 bits of rs, to
\* the bytes written so far, and a tick of any other instruction leaves the
\* output as it is.
C12_Outb ==
    [][ OneTick =>
          IF AtPc.tag = "IO" /\ AtPc.instr = "Outb"
          THEN /\ mres'.res = "Ok"
               /\ output' = output \o << LowByte(reg_inner[AtPc.rs]) >>
          ELSE output' = output ]_vars

\* outb t0 with t0 = 0xFFFFFFFF, then outb t1 with t1 = 8
C12_Witness ==
    /\ mres.op = "tick"
    /\ mres.n = 2
    /\ output = <<255, 8>>
    /\ reg_inner[5] = <<65535, 65535>>

\* the target of the control-flow instruction d at the PC
Target(d) ==
    CASE d.tag = "J" -> wrapping_add(pc, d.imm)
      [] d.tag = "I" /\ d.instr = "Jalr" -> wrapping_add(reg_inner[d.rs1], d.imm)
      [] d.tag \in {"B", "FW", "FV"} -> wrapping_add(pc, d.imm)
      [] OTHER -> wrapping_add(pc, <<0, 4>>)

\* C14 as stated: a tick advances the PC by 4 or overwrites it with the
\* target of a control-flow instruction, and the tick that yields Exit
\* leaves the PC at its value before the tick.
C14_Original ==
    [][ (OneTick /\ mres'.res = "Ok") =>
          IF mres'.flow = "Exit" THEN pc' = pc
          ELSE pc' = wrapping_add(pc, <<0, 4>>) \/ pc' = Target(AtPc) ]_vars

\* C14: a tick whose fetch fails leaves the PC unchanged; every other tick,
\* the tick that yields Exit and a tick that fails after the fetch included,
\* advances the PC by 4, unless it succeeds on a control-flow instruction
\* and overwrites the PC with the target.
C14_PcStep ==
    [][ OneTick =>
          IF ~Fetchable
          THEN /\ pc' = pc
               /\ mres'.res = "Err"
               /\ mres'.err.kind = "PcOutOfBounds"
          ELSE /\ \/ pc' = wrapping_add(pc, <<0, 4>>)
                  \/ /\ mres'.res = "Ok"
                     /\ AtPc.tag \in {"J", "B", "FW", "FV"}
                        \/ (AtPc.tag = "I" /\ AtPc.instr = "Jalr")
                     /\ pc' = Target(AtPc)
               /\ (mres'.res # "Ok" \/ mres'.flow = "Exit") => pc' = wrapping_add(pc, <<0, 4>>) ]_vars

\* the tick of end at address 0, the PC at 4
C14_Witness ==
    /\ mres.op = "tick"
    /\ mres.n = 1
    /\ mres.res = "Ok"
    /\ mres.flow = "Exit"
    /\ pc = <<0, 4>>

\* the condition of the branch d on the register values
Taken(d) ==
    CASE d.instr = "Beq" -> reg_inner[d.rs1] = reg_inner[d.rs2]
      [] d.instr = "Bne" -> reg_inner[d.rs1] # reg_inner[d.rs2]
      [] d.instr = "Blt" -> Signed(reg_inner[d.rs1]) < Signed(reg_inner[d.rs2])
      [] d.instr = "Bge" -> Signed(reg_inner[d.rs1]) >= Signed(reg_inner[d.rs2])

\* C15: for the instruction at address A, jal sets rd to A + 4 and the PC to
\* A + imm; jalr sets rd to A + 4 and the PC to rs1 + imm with the value rs1
\* had before the tick, also when rd = rs1; a branch sets the PC to A + imm
\* when its condition holds (blt and bge compare as signed numbers) and to
\* A + 4 otherwise, and writes no register; the sums wrap modulo 2^32.
C15_Jumps ==
    [][ /\ TickOf("Jal") =>
              /\ mres'.res = "Ok"
              /\ reg_get(reg_inner', AtPc.rd) = IF AtPc.rd = 0 THEN <<0, 0>>
                                                ELSE wrapping_add(pc, <<0, 4>>)
              /\ pc' = wrapping_add(pc, AtPc.imm)
        /\ TickOf("Jalr") =>
              /\ mres'.res = "Ok"
              /\ reg_get(reg_inner', AtPc.rd) = IF AtPc.rd = 0 THEN <<0, 0>>
                                                ELSE wrapping_add(pc, <<0, 4>>)
              /\ pc' = wrapping_add(reg_inner[AtPc.rs1], AtPc.imm)
        /\ (OneTick /\ AtPc.tag = "B") =>
              /\ mres'.res = "Ok"
              /\ reg_inner' = reg_inner
              /\ pc' = IF Taken(AtPc) THEN wrapping_add(pc, AtPc.imm)
                       ELSE wrapping_add(pc, <<0, 4>>) ]_vars

\* jalr t0, 4(t0) with t0 = 8: the PC at 12, t0 = 4
C15_Witness ==
    /\ mres.op = "tick"
    /\ mres.n = 1
    /\ get_raw_addr(Memory, 0) = <<66, 33511>>
    /\ pc = <<0, 12>>
    /\ reg_inner[5] = <<0, 4>>

\* x >> s keeping the sign: the floor of x / 2^s for the signed number x
ArithShr(x, s) ==
    IF x[1] >= 32768 THEN Not32(Shr32(Not32(x), s)) ELSE Shr32(x, s)

\* the shift amount is below 32
SmallShift(w) == w[1] = 0 /\ w[2] < 32

\* C16 as stated: sra writes to rd the floor of rs1 / 2^rs2 for the signed
\* number rs1 (sra(-1, 31) = -1), and slli by 31 moves bit 0 of rs1 into
\* the sign bit and does not trap.
C16_Sra ==
    [][ /\ (TickOf("Sra") /\ SmallShift(reg_inner[AtPc.rs2])) =>
              /\ mres'.res = "Ok"
              /\ reg_get(reg_inner', AtPc.rd) =
                     ArithShr(reg_inner[AtPc.rs1], reg_inner[AtPc.rs2][2])
        /\ (TickOf("Slli") /\ AtPc.imm = <<0, 31>>) =>
              /\ mres'.res = "Ok"
              /\ reg_get(reg_inner', AtPc.rd) = <<(reg_inner[AtPc.rs1][2] % 2) * 32768, 0>> ]_vars

\* C17 as stated: sll and sra shift by the low 5 bits of rs2; a tick of a
\* shift whose rs2 is 32 or more does not trap and writes to rd the value
\* shifted by rs2 mod 32.
C17_ShiftAmount ==
    [][ /\ TickOf("Sll") =>
              /\ mres'.res = "Ok"
              /\ reg_get(reg_inner', AtPc.rd) =
                     Shl32(reg_inner[AtPc.rs1], reg_inner[AtPc.rs2][2] % 32)
        /\ TickOf("Sra") =>
              /\ mres'.res = "Ok"
              /\ reg_get(reg_inner', AtPc.rd) \in
                     {ArithShr(reg_inner[AtPc.rs1], reg_inner[AtPc.rs2][2] % 32),
                      Shr32(reg_inner[AtPc.rs1], reg_inner[AtPc.rs2][2] % 32)} ]_vars

\* timing states other than the one the Cpu is in: the predictor new or
\* trained against every branch, the cache new or with another tag on the
\* line of word 16384, the pipeline empty or behind loads of t0 and t1
AltTimings ==
    LET trained == [i \in 0..(NUM_COUNTERS - 1) |-> "StronglyUntaken"]
        tagged == [i \in {4096} |-> <<0, 1>>]
        empty == [i \in 1..PIPELINE_LEN |-> NoneV]
        loads == [i \in 1..PIPELINE_LEN |->
                     [some |-> TRUE, ex_cycles |-> 1, ma_cycles |-> 90,
                      result_ready_stage |-> "WriteBack",
                      write_back_id |-> [some |-> TRUE, val |-> 4 + i],
                      float_write_back_id |-> NoneV]]
    IN  {[branch_predictor |-> trained, cache |-> Cache_new, pipeline_state |-> empty],
         [branch_predictor |-> BranchPredictor_new, cache |-> tagged, pipeline_state |-> loads],
         [branch_predictor |-> trained, cache |-> tagged, pipeline_state |-> loads]}

\* the Cpu c in the timing state t
WithTiming(c, t) ==
    [c EXCEPT !.branch_predictor = t.branch_predictor,
              !.cache = t.cache,
              !.pipeline_state = t.pipeline_state]

\* what a tick result r says of the architectural state
Arch(r) ==
    [res |-> r.res,
     flow |-> IF r.res = "Ok" THEN r.flow ELSE "none",
     err |-> IF r.res = "Err" THEN r.err ELSE NoneV,
     spied |-> r.spied,
     pc |-> r.c.pc, reg |-> r.c.reg, freg |-> r.c.freg, m |-> r.c.m,
     input |-> r.c.input, output |-> r.c.output]

\* from every other timing state a tick yields the architectural result a
SameArch(a) ==
    \A t \in AltTimings : Arch(cycle_one_full(WithTiming(Cpu, t))) = a

\* the tick taken is the one that yields r
TickIs(r) ==
    /\ Cpu' = r.c
    /\ mres'.res = r.res
    /\ mspied' = r.spied

\* C13: the PC, registers, memory, output, error and flow a tick yields are
\* the same from every timing state (predictor counters, cache tags,
\* pipeline queue), only the cycle count returned depends on the timing
\* state; and a tick has one outcome, the one cycle_one_full computes.
C13_TimingIndependent ==
    /\ []SameArch(Arch(cycle_one_full(Cpu)))
    /\ [][OneTick => TickIs(cycle_one_full(Cpu))]_vars

\* after a taken beq, a state whose next tick takes a number of cycles that
\* depends on the timing state
C13_Witness ==
    /\ mres.op = "tick"
    /\ mres.n = 1
    /\ mres.res = "Ok"
    /\ pc = <<0, 8>>
    /\ cycle_one_full(Cpu).res = "Ok"
    /\ \E t \in AltTimings :
          /\ cycle_one_full(WithTiming(Cpu, t)).res = "Ok"
          /\ cycle_one_full(WithTiming(Cpu, t)).cycles # cycle_one_full(Cpu).cycles

----------------------------------------------------------------------------
(* properties of the decoder, checked under DecSpec *)

\* the fields of a word, by place value
Opcode(bin) == bin[2] % 128
Funct3(bin) == (bin[2] \div 4096) % 8
Funct7(bin) == bin[1] \div 512

\* the opcode table of dialect v1: opcode, funct3 and funct7 (-1: any) and
\* the operation named for them
V1Table ==
    { <<51, 0, 0, "R", "Add">>, <<51, 0, 32, "R", "Sub">>, <<51, 4, 0, "R", "Xor">>,
      <<51, 6, 0, "R", "Or">>, <<51, 7, 0, "R", "And">>, <<51, 1, 0, "R", "Sll">>,
      <<51, 5, 32, "R", "Sra">>, <<51, 2, 0, "R", "Slt">>,
      <<19, 0, -1, "I", "Addi">>, <<19, 4, -1, "I", "Xori">>, <<19, 6, -1, "I", "Ori">>,
      <<19, 7, -1, "I", "Andi">>, <<19, 1, 0, "I", "Slli">>,
      <<3, 2, -1, "I", "Lw">>, <<103, 0, -1, "I", "Jalr">>, <<35, 2, -1, "S", "Sw">>,
      <<99, 0, -1, "B", "Beq">>, <<99, 1, -1, "B", "Bne">>, <<99, 4, -1, "B", "Blt">>,
      <<99, 5, -1, "B", "Bge">>,
      <<111, 0, -1, "J", "Jal">>, <<111, 1, -1, "J", "Jal">>, <<111, 2, -1, "J", "Jal">>,
      <<111, 3, -1, "J", "Jal">>, <<111, 4, -1, "J", "Jal">>, <<111, 5, -1, "J", "Jal">>,
      <<111, 6, -1, "J", "Jal">>, <<111, 7, -1, "J", "Jal">> }

\* the entry of slti in the table of the specification
SltiEntry == <<19, 2, -1, "I", "Slti">>

\* the decoded word is the operation of the entry e when its fields are e's
Decoded(e) ==
    (/\ mres.bin # <<0, 0>>
     /\ Opcode(mres.bin) = e[1]
     /\ Funct3(mres.bin) = e[2]
     /\ e[3] \in {-1, Funct7(mres.bin)})
    => (mres.res.tag = e[4] /\ mres.res.instr = e[5])

\* C21: in dialect v1 every entry of the opcode table (add, sub, xor, or,
\* and, sll, sra, slt; addi, xori, ori, andi, slli, slti; lw; jalr; sw; beq,
\* bne, blt, bge; jal) decodes to the operation it names, and the word 0
\* decodes to End.
C21_OpcodeTable ==
    mres.op = "decode" =>
        /\ \A e \in V1Table \cup {SltiEntry} : Decoded(e)
        /\ mres.bin = <<0, 0>> => (mres.res.tag = "Misc" /\ mres.res.instr = "End")

\* C22: for every word the decoder returns a decoded instruction or
\* Invalid carrying the same word, and never aborts; an unknown opcode gives
\* Invalid.
C22_NeverAborts ==
    mres.op = "decode" =>
        /\ mres.res.tag # "Abort"
        /\ mres.res.tag = "Invalid" => mres.res.bin = mres.bin
        /\ Opcode(mres.bin) \in {0, 127} /\ mres.bin # <<0, 0>> => mres.res.tag = "Invalid"

----------------------------------------------------------------------------
(* properties of the watch snapshot, checked under WatchSpec *)

\* the snapshot w holds the current value of everything opt watches
SnapshotOf(w) ==
    /\ DOMAIN w.reg_map = Range(opt.watchings.reg)
    /\ \A id \in DOMAIN w.reg_map : w.reg_map[id].value = reg_inner[id]
    /\ DOMAIN w.freg_map = Range(opt.watchings.freg)
    /\ \A id \in DOMAIN w.freg_map : w.freg_map[id] = reg_inner_f[id]
    /\ DOMAIN w.memory_map = Range(opt.watchings.memory)
    /\ \A a \in DOMAIN w.memory_map :
          w.memory_map[a].value = get_raw_addr(Memory, 4 * UToInt(a))

\* the step is a tick that aborted
TickAborted ==
    /\ sim_pos = "running"
    /\ entry'.ticks = entry.ticks + 1
    /\ cycle_one_full(Cpu).res = "Abort"

\* C23: every Break single_cycle returns, whatever its reason, carries a
\* snapshot with one entry per register, float register and memory address
\* of opt.watchings holding the current value, and producing the snapshot
\* never aborts, whichever addresses are watched.
C23_Watchings ==
    /\ []((sim_pos = "idle" /\ ret.kind = "Break")
            => (ret_watchings.some /\ SnapshotOf(ret_watchings.val)))
    /\ [][(sim_pos # "aborted" /\ sim_pos' = "aborted") => TickAborted]_vars

----------------------------------------------------------------------------
(* properties of the debug symbols, checked under SymSpec *)

\* the indices of the symbols at or below addr
Preceding(addr) == {i \in 1..Len(debug_symbol) : debug_symbol[i].addr <= addr}

\* the symbol index + 1 is the nearest one preceding addr
NearestPreceding(index, addr) ==
    /\ index + 1 \in Preceding(addr)
    /\ \A i \in Preceding(addr) : debug_symbol[i].addr <= debug_symbol[index + 1].addr

\* C24: on a non-empty sorted table get_nearest_symbol_addr(a) returns the
\* index of the symbol with the greatest address <= a for every a not below
\* the smallest symbol address, also past the last symbol, and an error for
\* an a below the smallest address or an empty table; disassemble_near
\* produces a listing for every cursor not below the smallest address.
C24_NearestSymbol ==
    /\ mres.op = "get_nearest_symbol_addr" =>
          IF Preceding(mres.addr) = {}
          THEN mres.r.res = "Err"
          ELSE mres.r.res = "Ok" /\ NearestPreceding(mres.r.index, mres.addr)
    /\ (mres.op = "disassemble_near" /\ Preceding(mres.addr) # {}) =>
          (mres.r.res = "Ok" /\ mres.r.rows # <<>>)

----------------------------------------------------------------------------
(* properties of the branch predictor and the cache, checked under BpSpec *)

\* StronglyUntaken < WeaklyUntaken < WeaklyTaken < StronglyTaken
CounterRank(s) ==
    CASE s = "StronglyUntaken" -> 0
      [] s = "WeaklyUntaken" -> 1
      [] s = "WeaklyTaken" -> 2
      [] s = "StronglyTaken" -> 3

\* the counter used for the address of the last call
CounterOf(bp) == bp[UToInt(mres.addr) % 64]

\* the rank r moved one state up or down, within 0..3
Moved(r, up) == IF up THEN (IF r = 3 THEN 3 ELSE r + 1) ELSE (IF r = 0 THEN 0 ELSE r - 1)

\* the step is an update_state untaken, on the counter of the last call
UntakenAgain ==
    /\ mres'.op = "update_state"
    /\ ~mres'.res
    /\ UToInt(mres'.addr) % 64 = UToInt(mres.addr) % 64

\* C25: every counter is one of the four states and starts at WeaklyTaken;
\* an update with a taken outcome moves the counter one state up, with an
\* untaken outcome one state down, saturating at both ends; predict returns
\* taken exactly in WeaklyTaken and StronglyTaken; two consecutive untaken
\* updates from WeaklyTaken give StronglyUntaken.
C25_Counter ==
    /\ [](\A i \in 0..63 : CounterRank(branch_predictor[i]) \in 0..3)
    /\ [](mres.n = 0 => \A i \in 0..63 : branch_predictor[i] = "WeaklyTaken")
    /\ [](mres.op = "predict" => (mres.res <=> CounterRank(CounterOf(branch_predictor)) >= 2))
    /\ [][mres'.op = "update_state" =>
            CounterRank(branch_predictor'[UToInt(mres'.addr) % 64])
            = Moved(CounterRank(branch_predictor[UToInt(mres'.addr) % 64]), mres'.res)]_vars
    /\ [][(/\ mres.op = "update_state"
           /\ ~mres.res
           /\ CounterOf(branch_predictor) = "WeaklyUntaken"
           /\ mres.n = 1
           /\ UntakenAgain)
          => CounterOf(branch_predictor') = "StronglyUntaken"]_vars

\* a counter at StronglyTaken was updated with a taken outcome, and one at
\* StronglyUntaken is predicted
C25_Witness ==
    /\ mres.n = 3
    /\ \/ mres.op = "update_state" /\ mres.res /\ CounterOf(branch_predictor) = "StronglyTaken"
       \/ mres.op = "predict" /\ CounterOf(branch_predictor) = "StronglyUntaken"

\* line and tag of the byte address n: (n >> 2) mod 16384 and (n >> 2) div 16384
LineOf(n) == (n \div 4) % 16384
TagOf(n) == (n \div 4) \div 16384

\* the lines that hold a tag other than 0 before or after the step
TouchedLines == (DOMAIN cache) \cup (DOMAIN cache')

\* the step is access_cache of the address n
AccessOf(n) ==
    /\ mres'.res <=> (TagAt(cache, LineOf(n)) = U32(TagOf(n)))
    /\ TagAt(cache', LineOf(n)) = U32(TagOf(n))
    /\ \A l \in TouchedLines \ {LineOf(n)} : TagAt(cache', l) = TagAt(cache, l)
    /\ (mres.op = "access_cache" /\ mres.addr = mres'.addr) => mres'.res

\* C30: access_cache(addr), for the addresses of a 32-bit machine, uses
\* line = (addr >> 2) mod 16384 and tag = (addr >> 2) div 16384, so that
\* addr >> 2 = tag * 16384 + line; it reports a hit exactly when the tag
\* stored for the line equals tag, a miss stores tag in the line, no other
\* line changes, and an access repeated at once to the same address hits.
C30_Cache ==
    /\ [](mres.op = "access_cache" =>
            /\ cache_line(mres.addr) = LineOf(UToInt(mres.addr))
            /\ cache_tag(mres.addr) = U32(TagOf(UToInt(mres.addr)))
            /\ UToInt(mres.addr) \div 4
               = TagOf(UToInt(mres.addr)) * 16384 + LineOf(UToInt(mres.addr)))
    /\ [][mres'.op = "access_cache" => AccessOf(UToInt(mres'.addr))]_vars

\* a miss that replaced the tag 1 of the line 0 by the tag 2
C30_Witness ==
    /\ mres.op = "access_cache"
    /\ mres.addr = Usize(131072)
    /\ ~mres.res
    /\ mres.n = 3
    /\ TagAt(cache, 0) = <<0, 2>>
    /\ TagAt(cache, 16383) = <<0, 0>>
    /\ TagAt(cache, 1) = <<0, 0>>

\* the outcome of the conditional branch d, of the format B, W or V
BranchTaken(d) ==
    CASE d.tag = "B" -> Taken(d)
      [] d.instr = "Fblt" -> f32_lt(reg_inner_f[d.rs1], reg_inner_f[d.rs2])
      [] d.instr = "Fbge" -> f32_ge(reg_inner_f[d.rs1], reg_inner_f[d.rs2])
      [] d.instr = "Fbeqz" -> f32_is_zero(reg_inner_f[d.rs1])
      [] d.instr = "Fbnez" -> ~f32_is_zero(reg_inner_f[d.rs1])

\* the instruction at the PC is a conditional branch
AtBranch == AtPc.tag \in {"B", "FW", "FV"}

\* the counter i predicts taken
PredictsTaken(i) == CounterRank(branch_predictor[i]) >= 2

\* the step counts one branch with the prediction p and the outcome t
Counted(p, t) ==
    b_stat' =
      [taken_pred_taken_count |->
          b_stat.taken_pred_taken_count + (IF p /\ t THEN 1 ELSE 0),
       taken_pred_untaken_count |->
          b_stat.taken_pred_untaken_count + (IF ~p /\ t THEN 1 ELSE 0),
       untaken_pred_taken_count |->
          b_stat.untaken_pred_taken_count + (IF p /\ ~t THEN 1 ELSE 0),
       untaken_pred_untaken_count |->
          b_stat.untaken_pred_untaken_count + (IF ~p /\ ~t THEN 1 ELSE 0)]

\* the step reads the counter i, recorded with the outcome t in the
\* statistics, then moves it by the outcome, and changes no other counter
ReadsAndUpdates(i, t) ==
    /\ Counted(PredictsTaken(i), t)
    /\ CounterRank(branch_predictor'[i]) = Moved(CounterRank(branch_predictor[i]), t)
    /\ \A j \in 0..63 : j # i => branch_predictor'[j] = branch_predictor[j]

\* C26: a tick that executes a conditional branch (format B, W or V; the
\* format P belongs to the other dialect) located at the address A reads and
\* then updates exactly the counter (A + 4) mod 64 and leaves the other 63
\* unchanged; a tick that executes any other instruction, jal and jalr
\* included, neither reads nor changes a counter.
C26_Counter ==
    [][OneTick =>
         IF AtBranch
         THEN ReadsAndUpdates((ToInt(pc) + 4) % 64, BranchTaken(AtPc))
         ELSE branch_predictor' = branch_predictor /\ b_stat' = b_stat]_vars

\* the branch at the address 60 was not taken, the counter 0 predicted
\* untaken and moved down, the counter 60 kept its state
C26_Witness ==
    /\ mres.op = "tick"
    /\ mres.n = 1
    /\ pc = <<0, 64>>
    /\ decode_from(get_raw_addr(Memory, 60)).tag \in {"B", "FW", "FV"}
    /\ branch_predictor[0] = "StronglyUntaken"
    /\ branch_predictor[60] = "WeaklyTaken"
    /\ b_stat.untaken_pred_untaken_count = 1

----------------------------------------------------------------------------
(* the simulator on the two loops, for the branch statistics *)

\* addi t0, zero, 3; loop: addi t0, t0, -1; beq t0, zero, 8; jal zero, loop; end
ImgSkip ==
    Image(0, 5, << <<48, 659>>, <<65522, 33427>>, <<2, 33891>>, <<65439, 61551>>, <<0, 0>> >>)

StatInit == \E img \in {ImgLoop, ImgSkip} : InitFrom(img, {}, Usize(0))

StatSpec == StatInit /\ [][Next]_vars

\* the sum of the four counters of the branch statistics
StatSum ==
    b_stat.taken_pred_taken_count + b_stat.taken_pred_untaken_count
    + b_stat.untaken_pred_taken_count + b_stat.untaken_pred_untaken_count

\* the step executes the instruction at the PC
Executes == cycle' = cycle + 1

\* C27: the four counters of the branch statistics start at 0; a step that
\* executes a conditional branch adds 1 to exactly one of them, the one of
\* the prediction read from the predictor and of the actual outcome, and
\* every other step leaves the four unchanged: their sum is the number of
\* conditional branches executed so far.
C27_BranchStat ==
    /\ StatSum = 0
    /\ [][IF Executes /\ AtBranch
          THEN /\ Counted(PredictsTaken((ToInt(pc) + 4) % 64), BranchTaken(AtPc))
               /\ StatSum' = StatSum + 1
          ELSE b_stat' = b_stat]_vars

\* three branches were executed, one predicted taken and two predicted
\* untaken, the last of them taken
C27_Witness ==
    /\ b_stat = [taken_pred_taken_count |-> 0, taken_pred_untaken_count |-> 1,
                 untaken_pred_taken_count |-> 1, untaken_pred_untaken_count |-> 1]
    /\ ret = [kind |-> "Exit"]

\* the loop addi a0, zero, 4; loop: addi a0, a0, -1; bne a0, zero, loop; end
\* has run to Exit
LoopRan ==
    /\ inner = Cpu_new(ImgLoop).m.inner
    /\ instr_mem_range = Cpu_new(ImgLoop).m.instr_mem_range
    /\ ret = [kind |-> "Exit"]

\* C28: when the loop has run to Exit, bne was executed four times and the
\* branch statistics are 3 taken-predicted-taken, 1 untaken-predicted-taken,
\* 0 taken-predicted-untaken and 0 untaken-predicted-untaken.
C28_LoopStat ==
    LoopRan =>
        /\ StatSum = 4
        /\ b_stat = [taken_pred_taken_count |-> 3, taken_pred_untaken_count |-> 0,
                     untaken_pred_taken_count |-> 1, untaken_pred_untaken_count |-> 0]

\* the loop has just returned Exit, after ten instructions
C28_Witness ==
    /\ LoopRan
    /\ cycle = 10
    /\ sim_pos = "idle"
    /\ b_stat.taken_pred_taken_count = 3
    /\ reg_inner[10] = <<0, 0>>

\* the counter used for the bne of the loop, which is at the address 8
LoopCounter == branch_predictor[(8 + 4) % 64]

\* C29 as stated: when the loop has run to Exit, the counter used for bne
\* is StronglyTaken.
C29_Original == LoopRan => LoopCounter = "StronglyTaken"

\* C29: when the loop has run to Exit, the counter used for bne is
\* WeaklyTaken: the three taken executions led it to StronglyTaken and the
\* last execution, not taken, moved it one state down; no other counter
\* has left WeaklyTaken.
C29_LoopCounter ==
    LoopRan =>
        /\ LoopCounter = "WeaklyTaken"
        /\ \A j \in 0..63 : branch_predictor[j] = "WeaklyTaken"

\* the loop has returned Exit with the counter back at WeaklyTaken after
\* three predictions confirmed and one missed
C29_Witness ==
    /\ LoopRan
    /\ LoopCounter = "WeaklyTaken"
    /\ b_stat.untaken_pred_taken_count = 1
    /\ cycle = 10

\* the counter of the bne is StronglyTaken before its last execution
C29_BeforeLast ==
    (inner = Cpu_new(ImgLoop).m.inner /\ pc = <<0, 8>> /\ reg_inner[10] = <<0, 0>>)
        => LoopCounter = "StronglyTaken"

----------------------------------------------------------------------------
(* ticks on loads and stores, for the cost of the memory accesses *)

\* number of ticks in a run of MaSpec
MaxMaTicks == 3

MaWords ==
    {<<2, 41859>>,    \* lw t2, 0(t0)
     <<18, 41859>>,   \* lw t2, 1(t0)
     <<98, 40995>>,   \* sw t1, 0(t0)
     <<2, 41863>>,    \* flw f2, 0(t0)
     <<18, 40999>>    \* fsw f1, 0(t0)
    }

\* word addresses in the BRAM, in the DDR2 with the tags 0, 1 and 3, in the
\* stack and past the end of the RAM
MaBases == {<<0, 8>>, <<0, 16384>>, <<1, 0>>, <<3, 53135>>, <<3, 53136>>, <<3, 53392>>}

\* the instructions w1 and w2, then lw t2, 0(t0); t0 holds a, t1 holds 7
MaCpu(w1, w2, a) ==
    [Cpu_new(Image(0, 3, <<w1, w2, <<2, 41859>> >>)) EXCEPT
        !.reg = reg_set(reg_set(@, 5, a), 6, <<0, 7>>)]

MaInit ==
    \E w1 \in MaWords, w2 \in MaWords, a \in MaBases :
        InitCpu(MaCpu(w1, w2, a), {}, Usize(0)) /\ InitSim

\* Cpu::cycle_one_full called directly
MaTick ==
    /\ mres.n < MaxMaTicks
    /\ TickResult(cycle_one_full(Cpu))

MaNext == MaTick

MaSpec == MaInit /\ [][MaNext]_vars

\* the instruction at the PC is a load or a store
AtMem == AtPc.tag \in {"S", "Flw", "Fsw"} \/ (AtPc.tag = "I" /\ AtPc.instr = "Lw")

\* the word address the load or store at the PC accesses
MemAddr == ToInt(wrapping_add(reg_inner[AtPc.rs1], AtPc.imm))

\* the word address a is served by the BRAM
IsBram(a) == a < 16384 \/ a >= (RAM_BYTE_SIZE \div 4) - 256

\* the cache holds the tag of the word address a
CacheHolds(a) == TagAt(cache, LineOf(a)) = U32(TagOf(a))

\* a successful access to the word address a: its cost in the record of the
\* instruction, the cache and the statistics
Accessed(a) ==
    /\ pipeline_state'[1].some
    /\ pipeline_state'[1].ma_cycles
          = (IF IsBram(a) THEN 1 ELSE IF CacheHolds(a) THEN 2 ELSE 90)
    /\ IF IsBram(a)
       THEN cache' = cache /\ c_stat' = c_stat
       ELSE /\ TagAt(cache', LineOf(a)) = U32(TagOf(a))
            /\ c_stat' = [hit_count |-> c_stat.hit_count + (IF CacheHolds(a) THEN 1 ELSE 0),
                          miss_count |-> c_stat.miss_count + (IF CacheHolds(a) THEN 0 ELSE 1)]

\* C31: the cache statistics start at 0; a tick whose load or store to the
\* word address a succeeds has a memory-access cost of 1 when a < 16384 or
\* a >= RAM_WORDS - 256, otherwise of 2 on a cache hit and 90 on a miss; the
\* cache and the statistics are left alone by an access to the BRAM, a
\* successful access outside the BRAM adds 1 to hits or to misses, and
\* every other tick leaves the statistics unchanged, so that hits + misses
\* is the number of successful accesses outside the BRAM.
C31_AccessCost ==
    /\ c_stat = [hit_count |-> 0, miss_count |-> 0]
    /\ [][OneTick =>
            IF AtMem /\ mres'.res = "Ok" THEN Accessed(MemAddr)
            ELSE /\ c_stat' = c_stat
                 /\ (~AtMem \/ IsBram(MemAddr)) => cache' = cache]_vars

\* the second access to a word of the DDR2 whose tag is 1: a hit after a miss
C31_Witness ==
    /\ mres.op = "tick"
    /\ mres.n = 2
    /\ mres.res = "Ok"
    /\ reg_inner[5] = <<1, 0>>
    /\ pipeline_state[1].some /\ pipeline_state[1].ma_cycles = 2
    /\ pipeline_state[2].some /\ pipeline_state[2].ma_cycles = 90
    /\ c_stat = [hit_count |-> 1, miss_count |-> 1]

\* an access to the stack, served by the BRAM
C31_StackWitness ==
    /\ mres.op = "tick"
    /\ mres.n = 1
    /\ mres.res = "Ok"
    /\ reg_inner[5] = <<3, 53136>>
    /\ pipeline_state[1].some /\ pipeline_state[1].ma_cycles = 1
    /\ c_stat = [hit_count |-> 0, miss_count |-> 0]

----------------------------------------------------------------------------
(* ticks on three instructions that depend on each other, for the stalls *)

\* number of ticks in a run of StallSpec
MaxStallTicks == 3

StallFirst ==
    {<<2, 41731>>,    \* lw t1, 0(t0)
     <<2, 41735>>,    \* flw f6, 0(t0)
     <<2, 41095>>,    \* flw f1, 0(t0)
     <<16, 787>>,     \* addi t1, zero, 1
     <<98, 40995>>    \* sw t1, 0(t0)
    }

StallSecond ==
    {<<2, 32811>>,    \* outb t0
     <<3, 43>>,       \* outb t1
     <<98, 40999>>    \* fsw f6, 0(t0)
    }

StallThird ==
    {<<98, 33715>>,   \* add t2, t0, t1
     <<98, 40999>>,   \* fsw f6, 0(t0)
     <<16, 5207>>,    \* fblt f0, f1, 8
     <<3, 43>>        \* outb t1
    }

\* a word address in the BRAM and one in the DDR2
StallBases == {<<0, 8>>, <<1, 0>>}

StallCpu(w1, w2, w3, a) ==
    [Cpu_new(Image(0, 3, <<w1, w2, w3>>)) EXCEPT !.reg = reg_set(@, 5, a)]

StallInit ==
    \E w1 \in StallFirst, w2 \in StallSecond, w3 \in StallThird, a \in StallBases :
        InitCpu(StallCpu(w1, w2, w3, a), {}, Usize(0)) /\ InitSim

\* Cpu::cycle_one_full called directly
StallTick ==
    /\ mres.n < MaxStallTicks
    /\ TickResult(cycle_one_full(Cpu))

StallNext == StallTick

StallSpec == StallInit /\ [][StallNext]_vars

\* the registers the instruction d reads, each with its kind
Sources(d) ==
    CASE d.tag \in {"R", "S", "B"} -> {<<"int", d.rs1>>, <<"int", d.rs2>>}
      [] d.tag \in {"I", "FX", "Flw"} -> {<<"int", d.rs1>>}
      [] d.tag = "IO" /\ d.instr = "Outb" -> {<<"int", d.rs>>}
      [] d.tag = "Fsw" -> {<<"int", d.rs1>>, <<"float", d.rs2>>}
      [] d.tag \in {"FE", "FK", "FW"} -> {<<"float", d.rs1>>, <<"float", d.rs2>>}
      [] d.tag \in {"FH", "FY", "FV"} -> {<<"float", d.rs1>>}
      [] OTHER -> {}

\* the register the record in a slot writes, none for an empty slot
Destination(slot) ==
    IF ~slot.some THEN {}
    ELSE (IF slot.write_back_id.some THEN {<<"int", slot.write_back_id.val>>} ELSE {})
         \cup (IF slot.float_write_back_id.some
               THEN {<<"float", slot.float_write_back_id.val>>} ELSE {})

\* the term of the EX slot and the term of the MA slot
ExTerm(slot, d) ==
    IF Destination(slot) \cap Sources(d) = {} THEN 0
    ELSE IF slot.result_ready_stage = "WriteBack" THEN 2
    ELSE IF slot.result_ready_stage = "MemoryAccess" THEN 1
    ELSE 0

MaTerm(slot, d) ==
    IF Destination(slot) \cap Sources(d) = {} THEN 0
    ELSE IF slot.result_ready_stage = "WriteBack" THEN 1
    ELSE 0

\* the stall count of the instruction at the PC
StallCount ==
    IF ExTerm(pipeline_state[1], AtPc) >= MaTerm(pipeline_state[2], AtPc)
    THEN ExTerm(pipeline_state[1], AtPc)
    ELSE MaTerm(pipeline_state[2], AtPc)

\* the step pushed f empty slots after the record of the instruction and
\* s empty slots before it
Pushed(f, s) ==
    /\ \A i \in 1..f : ~pipeline_state'[i].some
    /\ pipeline_state'[f + 1].some
    /\ \A i \in (f + 2)..PIPELINE_LEN :
          pipeline_state'[i] = IF i <= f + 1 + s THEN NoneV
                               ELSE pipeline_state[i - (f + 1 + s)]

\* C32: a tick that executes an instruction pushes, before the record of
\* the instruction, as many empty slots as the maximum of the term of the
\* EX slot (queue index 0: 2 when the instruction reads the register the
\* record writes and the result is ready at write-back, 1 when it is ready
\* at memory-access, else 0) and the term of the MA slot (index 1: 1 when
\* the instruction reads its destination and the result is ready at
\* write-back, else 0); a source matches a destination of the same kind
\* and id only, and an empty slot contributes 0.
C32_Stall ==
    [][(OneTick /\ mres'.res = "Ok" /\ mres'.flow # "Exit") =>
          Pushed(IF pipeline_state'[1].some THEN 0 ELSE 2, StallCount)]_vars

\* lw t1, 0(t0) from the BRAM, outb t0, then add t2, t0, t1: one stall for
\* the load in the MA slot
C32_Witness ==
    /\ mres.op = "tick" /\ mres.n = 3 /\ mres.res = "Ok"
    /\ pipeline_state[1].some /\ pipeline_state[1].write_back_id = [some |-> TRUE, val |-> 7]
    /\ ~pipeline_state[2].some
    /\ pipeline_state[3].some /\ ~pipeline_state[3].write_back_id.some
    /\ pipeline_state[4].some /\ pipeline_state[4].write_back_id = [some |-> TRUE, val |-> 6]
    /\ pipeline_state[4].result_ready_stage = "WriteBack"

\* lw t1, 0(t0) from the BRAM then outb t1: two stalls for the EX slot
C32_WitnessEx ==
    /\ mres.op = "tick" /\ mres.n = 2 /\ mres.res = "Ok"
    /\ pipeline_state[1].some
    /\ ~pipeline_state[2].some /\ ~pipeline_state[3].some
    /\ pipeline_state[4].some /\ pipeline_state[4].result_ready_stage = "WriteBack"

\* flw f6, 0(t0) then outb t1, which reads the integer register 6: no stall
C32_WitnessKind ==
    /\ mres.op = "tick" /\ mres.n = 2 /\ mres.res = "Ok"
    /\ pipeline_state[1].some
    /\ pipeline_state[2].some
    /\ pipeline_state[2].float_write_back_id = [some |-> TRUE, val |-> 6]
    /\ pipeline_state[2].result_ready_stage = "WriteBack"
    /\ output # <<>>

\* the MA cycles of a slot, 1 for an empty slot
MaOf(slot) == IF slot.some THEN slot.ma_cycles ELSE 1

\* the instruction at the PC is followed by two empty pushes: it is jalr or
\* a conditional branch whose outcome is not the one predicted
Flushes ==
    \/ AtPc.tag = "I" /\ AtPc.instr = "Jalr"
    \/ AtBranch /\ (PredictsTaken((ToInt(pc) + 4) % 64) # BranchTaken(AtPc))

\* the sum over the pushes of a tick with s stall pushes, the record rec
\* and the flush pushes if fl: max(EX cycles of the pushed slot, MA cycles
\* of the front slot), the front being the old front for the first push
PushSum(s, rec, fl) ==
    (IF s > 0 THEN Max(1, MaOf(pipeline_state[1])) + (s - 1) ELSE 0)
    + Max(rec.ex_cycles, IF s > 0 THEN 1 ELSE MaOf(pipeline_state[1]))
    + (IF fl THEN Max(1, rec.ma_cycles) + 1 ELSE 0)

\* the cycles of the tick with s stall pushes and the flush pushes if fl
CyclesAre(s, fl) ==
    /\ Pushed(IF fl THEN 2 ELSE 0, s)
    /\ mres'.cycles = PushSum(s, pipeline_state'[IF fl THEN 3 ELSE 1], fl)
    /\ mres'.cycles >= 1 + s + (IF fl THEN 2 ELSE 0)

\* C33: the pipeline queue always holds 5 slots, and the cycle count of a
\* tick that does not exit is the sum over its pushes (one empty push per
\* stall cycle, the record of the instruction, then two empty pushes for
\* jalr and for a mispredicted conditional branch, none for jal and for a
\* branch predicted correctly) of max(EX cycles of the pushed slot, MA
\* cycles of the slot at the front before the push), an empty slot counting
\* 1; the count is at least 1 + stall cycles + flush pushes.
C33_TickCycles ==
    /\ [](Len(pipeline_state) = 5)
    /\ [][(OneTick /\ mres'.res = "Ok" /\ mres'.flow # "Exit") =>
             CyclesAre(StallCount, Flushes)]_vars

\* lw t1, 0(t0) from the DDR2 then outb t1: one stall push of 2 cycles, the
\* MA cycles of the load at the front, then the record of outb
C33_Witness ==
    /\ mres.op = "tick" /\ mres.n = 2 /\ mres.res = "Ok"
    /\ mres.cycles = 3
    /\ pipeline_state[1].some /\ ~pipeline_state[2].some
    /\ pipeline_state[3].some /\ pipeline_state[3].ma_cycles = 2

\* a mispredicted branch: its record, then two empty pushes
C33_WitnessFlush ==
    /\ mres.op = "tick" /\ mres.n = 1 /\ mres.res = "Ok"
    /\ mres.cycles = 3
    /\ ~pipeline_state[1].some /\ ~pipeline_state[2].some /\ pipeline_state[3].some
    /\ b_stat.taken_pred_untaken_count = 1

----------------------------------------------------------------------------
(* the identifiers of the instructions *)

\* the category number of the instruction d
CategoryOf(d) ==
    CASE d.tag = "R" -> 0 [] d.tag = "I" -> 1 [] d.tag = "S" -> 2 [] d.tag = "B" -> 3
      [] d.tag = "J" -> 5 [] d.tag = "IO" -> 6 [] d.tag = "FE" -> 7 [] d.tag = "FH" -> 9
      [] d.tag = "FK" -> 10 [] d.tag = "FX" -> 11 [] d.tag = "FY" -> 12
      [] d.tag = "FW" -> 13 [] d.tag = "FV" -> 14 [] OTHER -> 15

\* the mnemonic of the instruction d
MnemonicOf(d) ==
    CASE d.tag = "Flw" -> "flw"
      [] d.tag = "Fsw" -> "fsw"
      [] d.tag = "Misc" -> "end"
      [] d.tag = "IO" ->
           (CASE d.instr = "Outb" -> "outb" [] d.instr = "Inw" -> "inw"
              [] d.instr = "Finw" -> "finw")
      [] OTHER -> EnumDisplay[d.instr]

\* C34: Instr::id gives every instruction variant an identifier of the form
\* (category << 3) + variant with a variant number below 8, distinct from
\* the identifier of every other variant and below InstrId::MAX, hence an
\* index of the statistics array; InstrId::try_from accepts exactly the
\* identifiers of the variants; Display of an identifier prints the
\* mnemonic of its instruction.
C34_InstrId ==
    /\ mres.op = "id" =>
          /\ mres.id \div 8 = CategoryOf(mres.d)
          /\ mres.id < InstrId_MAX
          /\ mres.in_stat
          /\ \A e \in IdInstrs : e # mres.d => Instr_id(e) # mres.id
          /\ mres.str = MnemonicOf(mres.d)
    /\ mres.op = "try_from" =>
          /\ mres.ok <=> (\E e \in IdInstrs : Instr_id(e) = mres.value)
          /\ mres.ok => (\E e \in IdInstrs : Instr_id(e) = mres.value
                                              /\ mres.str = MnemonicOf(e))

\* the identifier of addi prints addi
C34_Witness ==
    /\ mres.op = "id"
    /\ mres.d = [tag |-> "I", instr |-> "Addi"]
    /\ mres.id = 8
    /\ mres.str = "addi"

\* the identifier of fsw prints fsw
C34_WitnessFsw ==
    /\ mres.op = "id"
    /\ mres.d = [tag |-> "Fsw"]
    /\ mres.id = 121
    /\ mres.str = "fsw"

\* try_from refuses the number after the last variant of the B category
C34_WitnessRefused ==
    mres.op = "try_from" /\ mres.value = 28 /\ ~mres.ok

----------------------------------------------------------------------------
(* sign_extend called directly, and the decoder on words with extreme
   immediate fields *)

\* number of calls in a run of ImmSpec
MaxImmOps == 1

\* the widths the decoder uses
ImmBits == {12, 13, 21}

\* 0, 0x7ff, 0x800, 0xffc, 0x1ffc, 0xfffff, 0x100000, 0x80000000, 0xffffffff
ImmVals == {<<0, 0>>, <<0, 2047>>, <<0, 2048>>, <<0, 4092>>, <<0, 8188>>, <<15, 65535>>,
            <<16, 0>>, <<32768, 0>>, <<65535, 65535>>}

\* words of the I, S and B formats with the smallest and largest fields
ImmWords ==
    { Word(o, rd, f3, 5, rs2, f7) :
        o \in {19, 3, 103, 35, 99, 87, 7, 39}, rd \in {0, 1, 30, 31}, f3 \in {0, 1, 2},
        rs2 \in {0, 31}, f7 \in {0, 63, 64, 127} }

\* sign_extend::<BIT>(sign, imm)
SignExtend(BIT, sign, imm) ==
    /\ mres.n < MaxImmOps
    /\ mres' = [op |-> "sign_extend", BIT |-> BIT, sign |-> sign, imm |-> imm,
                res |-> sign_extend(BIT, sign, imm), n |-> mres.n + 1]
    /\ UNCHANGED <<cpu_vars, build_vars, sim_vars, mspied>>

\* DecodedInstr::decode_from(bin)
DecodeImm(bin) ==
    /\ mres.n < MaxImmOps
    /\ mres' = [op |-> "decode", bin |-> bin, res |-> decode_from(bin), n |-> mres.n + 1]
    /\ UNCHANGED <<cpu_vars, build_vars, sim_vars, mspied>>

\* the functions do not depend on the build
ImmInit == InitFrom(ImgEnd, {}, Usize(0)) /\ typed_memory /\ overflow_checks

ImmNext ==
    \/ \E BIT \in ImmBits, sign \in {<<0, 0>>, <<0, 1>>}, imm \in ImmVals :
          SignExtend(BIT, sign, imm)
    \/ \E bin \in ImmWords : DecodeImm(bin)

ImmSpec == ImmInit /\ [][ImmNext]_vars

\* the 16-bit half x with every bit from k up set
SetFrom(x, k) == (H16 - 2 ^ k) + (x % (2 ^ k))

\* the word w with every bit from BIT through 31 set
ExtendedFrom(w, BIT) ==
    IF BIT >= 16 THEN <<SetFrom(w[1], BIT - 16), w[2]>> ELSE <<65535, SetFrom(w[2], BIT)>>

\* C35: sign_extend::<BIT>(sign, imm) is imm when sign = 0 and imm with
\* every bit from BIT through 31 set otherwise, so that the field 0xffc of
\* 12 bits and the field 0x1ffc of 13 bits give -4 with the sign 1; the I
\* and S immediates the decoder returns lie in -2048..2047 and its B
\* immediates are even numbers in -4096..4094.
C35_SignExtend ==
    /\ mres.op = "sign_extend" =>
          /\ mres.res = IF mres.sign = <<0, 0>> THEN mres.imm
                        ELSE ExtendedFrom(mres.imm, mres.BIT)
          /\ (mres.sign # <<0, 0>> /\ mres.BIT = 12 /\ mres.imm = <<0, 4092>>)
                => Signed(mres.res) = -4
          /\ (mres.sign # <<0, 0>> /\ mres.BIT = 13 /\ mres.imm = <<0, 8188>>)
                => Signed(mres.res) = -4
    /\ mres.op = "decode" =>
          /\ mres.res.tag \in {"I", "S", "Flw", "Fsw"} =>
                (-2048 <= Signed(mres.res.imm) /\ Signed(mres.res.imm) <= 2047)
          /\ mres.res.tag \in {"B", "FW", "FV"} =>
                /\ -4096 <= Signed(mres.res.imm) /\ Signed(mres.res.imm) <= 4094
                /\ Signed(mres.res.imm) % 2 = 0

\* the B field 0x1ffc extended from the bit 13
C35_Witness ==
    /\ mres.op = "sign_extend"
    /\ mres.BIT = 13 /\ mres.sign = <<0, 1>> /\ mres.imm = <<0, 8188>>
    /\ mres.res = <<65535, 65532>>

\* a branch decoded with the smallest immediate, and a store with the largest
C35_WitnessDecode ==
    /\ mres.op = "decode"
    /\ \/ mres.res.tag = "B" /\ Signed(mres.res.imm) = -4096
       \/ mres.res.tag = "S" /\ Signed(mres.res.imm) = 2047

----------------------------------------------------------------------------
(* cli/src/interactive.rs: the spy commands of the REPL between two runs *)

\* command::static_command on "spy [on] <kinds> mem <addr>" (off = FALSE)
\* and on "spy off <kinds> mem <addr>" (off = TRUE): both alternatives of
\* the grammar build StaticCommand::Spy(Operation::Add, s)
static_command(off, kind, addr) ==
    IF off THEN [tag |-> "Spy", op |-> "Add", kind |-> kind, addr |-> addr]
    ELSE [tag |-> "Spy", op |-> "Add", kind |-> kind, addr |-> addr]

\* execute_interactive on a StaticCommand::Spy with a memory target
execute_static(m, s) ==
    IF s.op = "Add" THEN add_spy(m, s.kind, s.addr) ELSE remove_spy(m, s.kind, s.addr)

ReplKinds == {{"Read"}, {"Write"}, {"Read", "Write"}}

ReplAddrs == {Usize(0), Usize(100)}

\* one spy command typed at the prompt
SpyCommand(off, k, a) ==
    /\ sim_pos = "idle"
    /\ spy' = execute_static(Memory, static_command(off, k, a)).spy
    /\ UNCHANGED <<pc, reg_inner, reg_inner_f, input, output, inner, ty, instr_mem_range,
                   timing_vars, read_stat, build_vars, cycle, elapsed_clocks, fatal_error,
                   sim_pos, is_enter, opt, step_left, ret, ret_watchings, debug_symbol,
                   last_op, entry, had_failed, mem_vars>>

ReplOpts ==
    {[mode |-> md, breakpoints |-> {}, watchings |-> NoWatchings] :
        md \in {[k |-> "Run"], [k |-> "RunStep", step |-> NoneV]}}

ReplInit == InitFrom(ImgSpy, {}, Usize(0))

ReplNext ==
    \/ \E o \in ReplOpts : Call(o)
    \/ Iterate
    \/ \E off \in BOOLEAN, k \in ReplKinds, a \in ReplAddrs : SpyCommand(off, k, a)

ReplSpec == ReplInit /\ [][ReplNext]_vars

\* C36: the command "spy off <kinds> mem <addr>" removes the spies of those
\* kinds at that address, so that a later access of such a kind there gives
\* no Break(Spy), and leaves the spies of other kinds and addresses active.
C36_SpyOff ==
    [][\A k \in ReplKinds, a \in ReplAddrs :
          SpyCommand(TRUE, k, a) =>
              /\ spy'.on_read = IF "Read" \in k THEN spy.on_read \ {a} ELSE spy.on_read
              /\ spy'.on_write = IF "Write" \in k THEN spy.on_write \ {a} ELSE spy.on_write]_vars

----------------------------------------------------------------------------
(* programs that read their input: three reads, then end *)

\* number of ticks in a run of InSpec
MaxInTicks == 4

\* inw t0 / finw f1
InFirst == {<<0, 651>>, <<0, 143>>}

\* inw t1 / finw f2
InSecond == {<<0, 779>>, <<0, 271>>}

\* inw t2 / finw f1
InThird == {<<0, 907>>, <<0, 143>>}

\* the four bytes of three words each, little endian
InWords == {<<1, 0, 0, 0>>, <<4, 3, 2, 1>>, <<0, 0, 128, 63>>}

\* the bytes handed to BinaryInput::new: nothing, less than a word, one
\* word, three words
InContents ==
    {<<>>, <<1, 2, 3>>} \cup InWords \cup {a \o b \o c : a \in InWords, b \in InWords, c \in InWords}

InCpu(w1, w2, w3, content) ==
    [Cpu_new(Image(0, 4, <<w1, w2, w3, <<0, 0>> >>)) EXCEPT
        !.input = [content |-> content, read_index |-> 0]]

InInit ==
    \E w1 \in InFirst, w2 \in InSecond, w3 \in InThird, content \in InContents :
        InitCpu(InCpu(w1, w2, w3, content), {}, Usize(0)) /\ InitSim

\* Cpu::cycle_one_full called directly
InTick ==
    /\ mres.n < MaxInTicks
    /\ TickResult(cycle_one_full(Cpu))

InNext == InTick

InSpec == InInit /\ [][InNext]_vars

\* the instruction at the PC reads the input
AtRead == AtPc.tag = "IO" /\ AtPc.instr \in {"Inw", "Finw"}

\* the k-th word of the input, from its bytes 4(k-1) .. 4k-1
InputWord(k) ==
    <<input.content[4 * k] * 256 + input.content[4 * k - 1],
      input.content[4 * k - 2] * 256 + input.content[4 * k - 3]>>

\* the register the read at the PC writes, after the tick
ReadInto ==
    IF AtPc.instr = "Inw" THEN reg_get(reg_inner', AtPc.rd) ELSE reg_get(reg_inner_f', AtPc.rd)

\* C37: successive inw and finw consume the input in order: the k-th read
\* of a run returns the word made of the bytes 4(k-1) .. 4k-1 of the input.
\* (Every tick of these programs before the end is a read, so the read of
\* the tick number mres.n + 1 is the read number mres.n + 1.)
C37_InputOrder ==
    [][(OneTick /\ AtRead /\ Len(input.content) >= 4 * (mres.n + 1)) =>
          /\ mres'.res = "Ok"
          /\ ReadInto = InputWord(mres.n + 1)]_vars

----------------------------------------------------------------------------
(* the cache of a fresh Cpu, under MaSpec *)

\* C38: no line of the cache of a fresh simulator is valid: the first access
\* outside the BRAM is a miss, it costs 90 cycles and is counted as a miss.
C38_FreshCache ==
    [][(OneTick /\ mres.n = 0 /\ AtMem /\ mres'.res = "Ok" /\ ~IsBram(MemAddr)) =>
          /\ pipeline_state'[1].some
          /\ pipeline_state'[1].ma_cycles = DDR2_ACCESS_CYCLES
          /\ c_stat' = [hit_count |-> 0, miss_count |-> 1]]_vars

----------------------------------------------------------------------------
(* the inspection methods of the Simulator called between ticks *)

\* number of calls and ticks in a run of InspectSpec
MaxInspectOps == 2

InspectIds == {0, 5, 6}

InspectAddrs == {Usize(0), Usize(100), Usize(RAM_BYTE_SIZE \div 4)}

InspectFrame == UNCHANGED <<pc, reg_inner, reg_inner_f, input, output, instr_mem_range,
                            timing_vars, build_vars, sim_vars, mspied>>

\* Simulator::get_pc
GetPc ==
    /\ mres.n < MaxInspectOps
    /\ mres' = [op |-> "get_pc", res |-> pc, n |-> mres.n + 1]
    /\ UNCHANGED <<inner, ty, spy, read_stat>>
    /\ InspectFrame

\* Simulator::get_reg: Cpu::get_reg, that is RegFile::get
GetReg(id) ==
    /\ mres.n < MaxInspectOps
    /\ mres' = [op |-> "get_reg", id |-> id,
                res |-> [value |-> reg_get(reg_inner, id), ty |-> RegId_ty(id)],
                n |-> mres.n + 1]
    /\ read_stat' = encounter_read(read_stat, id)
    /\ UNCHANGED <<inner, ty, spy>>
    /\ InspectFrame

\* Simulator::get_freg: Cpu::get_freg, that is RegFile::get_f
GetFreg(id) ==
    /\ mres.n < MaxInspectOps
    /\ mres' = [op |-> "get_freg", id |-> id, res |-> reg_get(reg_inner_f, id),
                n |-> mres.n + 1]
    /\ read_stat' = encounter_read_f(read_stat, id)
    /\ UNCHANGED <<inner, ty, spy>>
    /\ InspectFrame

\* Simulator::get_mem: Cpu::get_mem, that is Memory::get with no spy result
GetMem(addr) ==
    /\ mres.n < MaxInspectOps
    /\ mres' = [op |-> "get_mem", addr |-> addr, res |-> get(Memory, addr, NoneV).res,
                n |-> mres.n + 1]
    /\ inner' = get(Memory, addr, NoneV).m.inner
    /\ ty' = get(Memory, addr, NoneV).m.ty
    /\ spy' = get(Memory, addr, NoneV).m.spy
    /\ read_stat' = MemReads("get", get(Memory, addr, NoneV))
    /\ InspectFrame

\* Cpu::cycle_one_full called directly
InspectTick ==
    /\ mres.n < MaxInspectOps
    /\ TickResult(cycle_one_full(Cpu))

InspectInit == \E img \in {ImgAdd, ImgSpy} : InitFrom(img, {}, Usize(0))

InspectNext ==
    \/ GetPc
    \/ \E id \in InspectIds : GetReg(id)
    \/ \E id \in InspectIds : GetFreg(id)
    \/ \E addr \in InspectAddrs : GetMem(addr)
    \/ InspectTick

InspectSpec == InspectInit /\ [][InspectNext]_vars

\* the step is a call of get_pc, get_reg, get_freg or get_mem
Inspects == mres'.n = mres.n + 1 /\ mres'.op \in {"get_pc", "get_reg", "get_freg", "get_mem"}

\* C39: get_pc, get_reg, get_freg and get_mem change nothing of the
\* simulator: not the PC, the registers, the memory, the cycle count, the
\* input and output, and not the counters of the statistics (the reads of
\* the registers and of the memory).
C39_Inspect == [][Inspects => UNCHANGED <<core_vars, read_stat, build_vars, sim_vars>>]_vars

\* the same without the counters of the statistics
C39_InspectCore == [][Inspects => UNCHANGED <<core_vars, build_vars, sim_vars>>]_vars

----------------------------------------------------------------------------
(* ticks that fail: two instructions, then the end of the text *)

\* number of ticks in a run of FailSpec
MaxFailTicks == 3

\* the loads and stores of MaWords, no instruction, addi t0, zero, 1 and
\* outb t1
FailWords == MaWords \cup {<<65535, 65535>>, <<16, 659>>, <<3, 43>>}

\* word addresses in the BRAM, in the DDR2 and past the end of the RAM
FailBases == {<<0, 8>>, <<1, 0>>, <<3, 53392>>}

\* the instructions w1 and w2; t0 holds a, t1 holds 7
FailCpu(w1, w2, a) ==
    [Cpu_new(Image(0, 2, <<w1, w2>>)) EXCEPT
        !.reg = reg_set(reg_set(@, 5, a), 6, <<0, 7>>)]

FailInit ==
    \E w1 \in FailWords, w2 \in FailWords, a \in FailBases :
        InitCpu(FailCpu(w1, w2, a), {}, Usize(0)) /\ InitSim

\* Cpu::cycle_one_full called directly
FailTick ==
    /\ mres.n < MaxFailTicks
    /\ TickResult(cycle_one_full(Cpu))

FailNext == FailTick

FailSpec == FailInit /\ [][FailNext]_vars

\* the step is a tick that returns an error
Fails == OneTick /\ mres'.res = "Err"

\* the PC p plus 4
Plus4(p) == IF p[2] + 4 >= H16 THEN <<(p[1] + 1) % H16, p[2] + 4 - H16>> ELSE <<p[1], p[2] + 4>>

\* C40 as stated: a tick that returns an error leaves the PC, the registers,
\* the memory and the output as they were before the tick.
C40_Original == [][Fails => UNCHANGED <<pc, reg_inner, reg_inner_f, inner, output>>]_vars

\* C40: a tick that returns an error leaves the registers, the memory and
\* the output as they were before the tick; it leaves the PC where it was
\* only when the fetch failed, and otherwise (no such instruction, a failed
\* load or store) at the address of the failing instruction plus 4.
C40_FailedTick ==
    [][Fails =>
          /\ UNCHANGED <<reg_inner, reg_inner_f, inner, output>>
          /\ pc' = IF Fetchable THEN Plus4(pc) ELSE pc
          /\ Fetchable <=> mres'.err.kind # "PcOutOfBounds"]_vars

\* a store past the end of the RAM has failed at the address 0
C40_Witness ==
    /\ mres.op = "tick" /\ mres.n = 1
    /\ mres.res = "Err" /\ mres.err.kind = "OutOfBounds"
    /\ pc = <<0, 4>>

\* the other errors: no such instruction, a load of the wrong type, a fetch
\* past the end of the text
C40_WitnessInvalid == mres.op = "tick" /\ mres.res = "Err" /\ mres.err.kind = "Invalid"

C40_WitnessType ==
    mres.op = "tick" /\ mres.res = "Err" /\ mres.err.kind = "ViolateTransmutation"

C40_WitnessFetch ==
    mres.op = "tick" /\ mres.res = "Err" /\ mres.err.kind = "PcOutOfBounds" /\ pc = <<0, 8>>

====
